---- MODULE Spec2Model ----
(***************************************************************************)
(* Model of the network-test-api service (package main):                   *)
(*   - the iperf3 endpoint: request handler, control-channel session,      *)
(*     data-plane workers (specification Spec);                            *)
(*   - the same under fair scheduling of the goroutines (SpecFair);        *)
(*   - the same against a server that may stop sending (SpecSilent);      *)
(*   - the token-bucket pacing loop of one send worker (SpecPacing);       *)
(*   - the TWAMP endpoint and its result analyzer (SpecTwamp);             *)
(*   - the constructor, cookie, framing and Error Estimate functions,      *)
(*     each called on its own (SpecUnits).                                 *)
(***************************************************************************)
EXTENDS Integers, Sequences, FiniteSets, TLC

VARIABLES
    \* ---- iperf3 endpoint ----
    req,          \* the decoded RunRequest (zero values for absent fields)
    hpc,          \* handler position: "recv" | "running" | "responded"
    resp,         \* the HTTP response written
    client,       \* the Iperf3Client configuration
    pc,           \* session position (the state of the control channel)
    err,          \* error returned by iperf3Test
    result,       \* "none" | "ok" | "error": what iperf3Test returned
    reads,        \* history: state bytes read from the control connection
    ctrlOut,      \* history: messages written on the control connection
    trace,        \* history: session states entered
    sentParams,   \* the Iperf3Params written in ExchangeParams
    streams,      \* c.streams: one entry per data connection
    dials,        \* number of dial attempts (control + data)
    spawned,      \* data-plane goroutines started so far
    wg,           \* sync.WaitGroup counter
    wpc,          \* position of each data-plane worker
    ioCount,      \* I/O calls each worker made on its stream
    streamBytes,  \* per-worker byte counter
    tmp,          \* value of totalBytes each worker loaded for its +=
    mu,           \* sync.Mutex owner (0 = unlocked)
    totalBytes,   \* shared total of sendData / receiveData
    expired,      \* the shared deadline has passed
    res,          \* the Iperf3Result byte counts filled in by RunTest
    conns,        \* history: every connection dialled, with its state
    ioFailed,     \* history: per worker, its byte counter when its I/O call failed (-1: none)
    sleepTime,    \* ms each send worker slept after its last write (0: it did not sleep)
    memWrites,    \* history: the writes made to the variables of the running
                  \* sendData / receiveData call and of its goroutines
    silent,       \* the server has stopped sending and keeps its connections open
    cookie,       \* c.cookie
    wire,         \* history: for every connection dialled (as in conns), its network
                  \* and the first bytes the client wrote on it
    \* ---- pacing loop of one send worker ----
    pcfg,         \* the client configuration the worker runs under
    ppc,          \* position in the loop: "check" | "write" | "pace" | "done" | "off"
    pnow,         \* wall clock, in ms since startTime
    pbytes,       \* streamBytes of the worker
    \* ---- TWAMP endpoint ----
    treq,         \* the decoded RunRequest of POST /twamp/client/run
    tpc,          \* position in twampClientRun
    tresp,        \* the HTTP response written
    nresults,     \* len(results.Results)
    idx,          \* probes the analyzer loop has consumed
    acc,          \* the analyzer's accumulators
    last,         \* the loop-body locals of the last probe consumed
    shift,        \* a constant clock offset c
    accS,         \* the accumulators of the same run with c added to every T2, T3
    fwdHopsSeen,  \* history: forward hop values the probes yielded
    revHopsSeen,  \* history: reverse hop values the probes yielded
    validSeen,    \* history: records consumed that were not lost
    frSeen,       \* history: <<index, F, R, sender EE, reflector EE>> of the probes that
                  \* were not lost, in order
    accValid,     \* history: the accumulators fed with the probes that were not lost only
    clockSynced,  \* the host clock is synchronized (what adjtimex would report now)
    errorEstimate, \* the Error Estimate put into the session configuration
    senderSynced, \* the local senderSynced of twampClientRun
    clockReads,   \* history: the adjtimex queries of the request, with their answers
    syncStatus,   \* the "sync_status" object of the response document
    \* ---- single functions, called on their own ----
    call,         \* the function called and its arguments
    ret,          \* what it returned
    upc           \* "call" | "returned" | "off"

ivars == <<req, hpc, resp, client, pc, err, result, reads, ctrlOut, trace,
           sentParams, streams, dials, spawned, wg, wpc, ioCount, streamBytes,
           tmp, mu, totalBytes, expired, res, conns, ioFailed, sleepTime, memWrites,
           cookie, wire, silent>>

pvars == <<pcfg, ppc, pnow, pbytes>>

tvars == <<treq, tpc, tresp, nresults, idx, acc, last, shift, accS, fwdHopsSeen,
           revHopsSeen, validSeen, frSeen, accValid, clockSynced, errorEstimate,
           senderSynced, clockReads, syncStatus>>

uvars == <<call, ret, upc>>

vars == <<ivars, pvars, tvars, uvars>>

---------------------------------------------------------------------------
(* Bounds of the model *)
MaxParallel == 2
MaxIO == 2
MaxProbes == 3
MaxSamples == 3
\* ms one conn.Write of a chunk takes on a sink that never blocks
WriteCostMs == 1

(* iperf3 protocol constants *)
TEST_START == 1
TEST_RUNNING == 2
TEST_END == 4
PARAM_EXCHANGE == 9
CREATE_STREAMS == 10
EXCHANGE_RESULTS == 13
DISPLAY_RESULTS == 14
IPERF_DONE == 16
ACCESS_DENIED == -1
SERVER_ERROR == -2
COOKIE_SIZE == 37
DEFAULT_TCP_BLKSIZE == 131072
DEFAULT_UDP_BLKSIZE == 1460
DEFAULT_BANDWIDTH == 100000000
MaxChunk == 65536

Min(a, b) == IF a < b THEN a ELSE b

\* strings.ToUpper on the protocol strings the model sends
ToUpper(s) ==
    CASE s = "udp" -> "UDP"
      [] s = "Udp" -> "UDP"
      [] s = "tcp" -> "TCP"
      [] s = "Tcp" -> "TCP"
      [] s = "sctp" -> "SCTP"
      [] OTHER -> s

\* A byte the server may send on the control connection, as it is on the wire:
\* the states, 0xFF, 0xFE and 0x80
ServerBytes == {TEST_START, TEST_RUNNING, TEST_END, PARAM_EXCHANGE, CREATE_STREAMS,
                EXCHANGE_RESULTS, DISPLAY_RESULTS, 255, 254, 128}

\* The bytes the model lets the server send after TEST_END, where the client
\* tells the state it waits for from any other byte: the two states of that
\* phase, a state out of sequence and 0xFF
TailBytes == {EXCHANGE_RESULTS, DISPLAY_RESULTS, TEST_START, 255}

\* int8(buf[0])
\* (mutant: the byte is taken as it is, unsigned)
Int8Unsigned(w) == w
Int8(w) == IF w >= 128 THEN w - 256 ELSE w

\* Requests the model sends to POST /iperf/client/run
ReqHosts == {"", "h"}
ReqProtocols == {"", "udp", "sctp"}
ReqFields ==
    [malformed : BOOLEAN, ServerHost : ReqHosts, ServerPort : {0}, Duration : {0},
     Parallel : 0..MaxParallel, Protocol : ReqProtocols, Reverse : BOOLEAN,
     Bandwidth : {0}]
\* a body that does not parse leaves no field; the body without server_host is
\* sent with its other fields absent too, and so is the one that names a
\* protocol other than TCP and UDP
Requests ==
    {r \in ReqFields :
        /\ r.malformed => r.ServerHost = ""
        /\ r.ServerHost = "" => r.Parallel = 0 /\ r.Protocol = "" /\ ~r.Reverse
        /\ r.Protocol = "sctp" => r.Parallel = 0 /\ ~r.Reverse}

NoClient == [Host |-> "", Port |-> 0, Duration |-> 0, Parallel |-> 0, Protocol |-> "",
             Reverse |-> FALSE, BlockSize |-> 0, Bandwidth |-> 0]
NoParams == [tcp |-> FALSE, udp |-> FALSE, omit |-> 0, time |-> 0, num |-> 0,
             blockcount |-> 0, parallel |-> 0, len |-> 0, pacing_timer |-> 0,
             client_version |-> "", reverse |-> 0]
NoErr == [kind |-> "", observed |-> 0, expected |-> 0]
NoResp == [code |-> 0, json |-> FALSE, status |-> "", error |-> "", keys |-> {}]

\* const chars = "abcdefghijklmnopqrstuvwxyz234567", as byte values
Chars == [i \in 1..32 |-> IF i <= 26 THEN 96 + i ELSE 23 + i]

\* the i-th byte rand.Read delivers: the source repeats a short pattern
RandByte(rnd, i) == rnd[((i - 1) % Len(rnd)) + 1]

\* chars[int(b[0]) % len(chars)]
CookieChar(b) == Chars[(b % Len(Chars)) + 1]

\* (mutant: the loop runs over all COOKIE_SIZE bytes and no terminator is set)
generateCookieUnterminated(rnd) ==
    [i \in 1..COOKIE_SIZE |-> CookieChar(RandByte(rnd, i))]
\* (mutant: one byte is drawn before the loop and used for every character)
generateCookieOneDraw(rnd) ==
    [i \in 1..COOKIE_SIZE |-> IF i < COOKIE_SIZE THEN CookieChar(RandByte(rnd, 1)) ELSE 0]
\* generateCookie
generateCookie(rnd) ==
    [i \in 1..COOKIE_SIZE |-> IF i < COOKIE_SIZE THEN CookieChar(RandByte(rnd, i)) ELSE 0]

\* the bytes rand.Read delivers while a client is constructed
CookieSeeds == {<<3, 250, 31, 32, 100>>}

\* NewIperf3Client
NewIperf3Client(host, port, duration, parallel, protocol, reverse, bandwidthMbps) ==
    LET par == IF parallel < 1 THEN 1 ELSE parallel
        blk == IF ToUpper(protocol) = "UDP" THEN DEFAULT_UDP_BLKSIZE ELSE DEFAULT_TCP_BLKSIZE
        bw0 == bandwidthMbps * 1000 * 1000
        bw  == IF bw0 <= 0 THEN DEFAULT_BANDWIDTH ELSE bw0
    IN [Host |-> host, Port |-> port, Duration |-> duration, Parallel |-> par,
        Protocol |-> ToUpper(protocol), Reverse |-> reverse, BlockSize |-> blk,
        Bandwidth |-> bw]

\* Messages on the control connection
CookieMsg == [kind |-> "cookie", body |-> "", state |-> COOKIE_SIZE]
JsonMsg(body) == [kind |-> "json", body |-> body, state |-> 0]
StateMsg(s) == [kind |-> "state", body |-> "", state |-> s]

\* writeState / writeJSON: append to what the control connection carried
writeState(out, s) == Append(out, StateMsg(s))
\* (mutant: the payload goes out without its 4-byte length prefix)
writeJSONUnframed(out, body) == Append(out, [kind |-> "raw", body |-> body, state |-> 0])
writeJSON(out, body) == Append(out, JsonMsg(body))

\* (mutant: the block length is left out of the parameters)
Iperf3ParamsNoLen(c) ==
    [tcp |-> c.Protocol = "TCP", udp |-> c.Protocol = "UDP", omit |-> 0,
     time |-> c.Duration, num |-> 0, blockcount |-> 0, parallel |-> c.Parallel,
     len |-> 0, pacing_timer |-> 1000, client_version |-> "3.16",
     reverse |-> IF c.Reverse THEN 1 ELSE 0]
\* The Iperf3Params built by ExchangeParams
Iperf3Params(c) ==
    [tcp |-> c.Protocol = "TCP", udp |-> c.Protocol = "UDP", omit |-> 0,
     time |-> c.Duration, num |-> 0, blockcount |-> 0, parallel |-> c.Parallel,
     len |-> c.BlockSize, pacing_timer |-> 1000, client_version |-> "3.16",
     reverse |-> IF c.Reverse THEN 1 ELSE 0]

\* one readState: what was expected, the byte w that came and the state it was
\* read as (ok = FALSE: the read failed)
Read(expected, w, ok) ==
    [expected |-> expected, observed |-> Int8(w), ok |-> ok, byte |-> w]

UnexpectedErr(b, expected) == [kind |-> "unexpected state", observed |-> b, expected |-> expected]
PlainErr(kind) == [kind |-> kind, observed |-> 0, expected |-> 0]

\* jsonResponse / http.Error
jsonResponse(status, error, keys, code) ==
    [code |-> code, json |-> TRUE, status |-> status, error |-> error, keys |-> keys]
httpError(msg, code) ==
    [code |-> code, json |-> FALSE, status |-> "", error |-> msg, keys |-> {}]

\* Close: every data stream and the control connection are closed
Close(ss) == [i \in DOMAIN ss |-> "closed"]

\* a connection that was dialled: held = the client keeps it in c.controlConn
\* or c.streams
Conn(role, state, held) == [role |-> role, state |-> state, held |-> held]
\* what went over a connection that was dialled: the network it was dialled on
\* and the bytes of the first Write on it (<<>>: that Write failed)
Dialled(net, first) == [net |-> net, first |-> first]
\* CreateStreams: "udp" if c.Protocol == "UDP", else "tcp"
Network(c) == IF c.Protocol = "UDP" THEN "udp" ELSE "tcp"
\* conn.Write(c.cookie) on a new data connection
\* (mutant: the cookie goes out without its terminator)
StreamDialledUnterminated(c, ck) == Dialled(Network(c), SubSeq(ck, 1, Len(ck) - 1))
StreamDialled(c, ck) == Dialled(Network(c), ck)

\* (mutant: Close closes the control connection and forgets the streams)
CloseConnsControlOnly(cs) ==
    [i \in DOMAIN cs |-> IF cs[i].held /\ cs[i].role = "control"
                         THEN Conn(cs[i].role, "closed", TRUE) ELSE cs[i]]
\* Close, on the connections: those the client holds are closed
CloseConns(cs) ==
    [i \in DOMAIN cs |-> IF cs[i].held THEN Conn(cs[i].role, "closed", TRUE) ELSE cs[i]]

---------------------------------------------------------------------------
(* The iperf3 endpoint *)

Workers == 1..MaxParallel

InitIperf ==
    /\ req \in Requests
    /\ hpc = "recv"
    /\ resp = NoResp
    /\ client = NoClient
    /\ pc = "Idle"
    /\ err = NoErr
    /\ result = "none"
    /\ reads = <<>>
    /\ ctrlOut = <<>>
    /\ trace = <<>>
    /\ sentParams = NoParams
    /\ streams = <<>>
    /\ dials = 0
    /\ spawned = 0
    /\ wg = 0
    /\ wpc = [i \in Workers |-> "none"]
    /\ ioCount = [i \in Workers |-> 0]
    /\ streamBytes = [i \in Workers |-> 0]
    /\ tmp = [i \in Workers |-> 0]
    /\ mu = 0
    /\ totalBytes = 0
    /\ expired = FALSE
    /\ res = [SentBytes |-> 0, ReceivedBytes |-> 0]
    /\ conns = <<>>
    /\ ioFailed = [i \in Workers |-> -1]
    /\ sleepTime = [i \in Workers |-> 0]
    /\ memWrites = {}
    /\ cookie = <<>>
    /\ wire = <<>>
    /\ silent = FALSE

\* one write to a variable of the data phase: var names it, inst tells the
\* instances of a goroutine-local variable apart (0: the one instance declared
\* in sendData / receiveData), by is the goroutine writing (0: the caller),
\* locked whether it holds mu, started whether a goroutine was started before
MemWrite(var, inst, by, locked, started) ==
    [var |-> var, inst |-> inst, by |-> by, locked |-> locked, started |-> started]

dataVars == <<spawned, wg, wpc, ioCount, streamBytes, tmp, mu, totalBytes, expired, res,
              ioFailed, sleepTime, memWrites>>

\* (mutant: the document is built as for an upload whatever the direction)
SuccessKeysSentOnly(reverse) ==
    {"server", "port", "protocol", "duration_sec", "bandwidth_mbps", "sent_bytes"}
\* keys of the success document built by iperfClientRun
SuccessKeys(reverse) ==
    {"server", "port", "protocol", "duration_sec", "bandwidth_mbps"}
        \cup (IF reverse THEN {"received_bytes"} ELSE {"sent_bytes"})

\* iperf3Test returns (nil, e): the deferred Close runs and iperfClientRun
\* answers with the error envelope
ReturnErrorWith(e, ss, cs) ==
    /\ pc' = "Failed"
    /\ trace' = Append(trace, "Failed")
    /\ err' = e
    /\ result' = "error"
    /\ streams' = Close(ss)
    /\ resp' = jsonResponse("error", e.kind, {}, 500)
    /\ hpc' = "responded"
    /\ conns' = CloseConns(cs)
ReturnError(e, ss) == ReturnErrorWith(e, ss, conns)

\* iperf3Test returns (result, nil): Close runs and iperfClientRun answers ok
ReturnResult(tr) ==
    /\ pc' = "Done"
    /\ trace' = tr \o <<"Done">>
    /\ err' = NoErr
    /\ result' = "ok"
    /\ streams' = Close(streams)
    /\ resp' = jsonResponse("ok", "", SuccessKeys(req.Reverse), 200)
    /\ hpc' = "responded"
    /\ conns' = CloseConns(conns)

\* iperfClientRun: decode the body, apply the defaults, construct the client
iperfClientRun ==
    /\ hpc = "recv"
    /\ IF req.malformed
       THEN /\ resp' = httpError("invalid character", 400)
            /\ hpc' = "responded"
            /\ UNCHANGED <<client, pc, trace, cookie>>
       ELSE LET port == IF req.ServerPort = 0 THEN 5201 ELSE req.ServerPort
                dur  == IF req.Duration = 0 THEN 5 ELSE req.Duration
                par  == IF req.Parallel = 0 THEN 1 ELSE req.Parallel
                prot == IF req.Protocol = "" THEN "TCP" ELSE req.Protocol
                bw   == IF req.Bandwidth = 0 THEN 100 ELSE req.Bandwidth
            IN /\ client' = NewIperf3Client(req.ServerHost, port, dur, par, prot,
                                            req.Reverse, bw)
               /\ hpc' = "running"
               /\ pc' = "Connecting"
               /\ trace' = <<"Connecting">>
               /\ \E rnd \in CookieSeeds : cookie' = generateCookie(rnd)
               /\ resp' = resp
    /\ UNCHANGED <<silent, req, err, result, reads, ctrlOut, sentParams, streams, dials, conns,
                   wire>>
    /\ UNCHANGED dataVars
    /\ UNCHANGED <<pvars, tvars, uvars>>

\* Connect: dial the control connection and send the cookie
Connect ==
    /\ pc = "Connecting"
    /\ dials' = dials + 1
    /\ \E dialed \in BOOLEAN, written \in BOOLEAN :
         IF dialed /\ written
         THEN /\ ctrlOut' = Append(ctrlOut, CookieMsg)
              /\ conns' = Append(conns, Conn("control", "open", TRUE))
              /\ wire' = Append(wire, Dialled("tcp", cookie))
              /\ pc' = "ParamExchange"
              /\ trace' = Append(trace, "ParamExchange")
              /\ UNCHANGED <<err, result, streams, resp, hpc>>
         ELSE IF dialed
         THEN \* the cookie write failed: c.controlConn.Close() before returning
              /\ ReturnErrorWith(PlainErr("send cookie failed"), streams,
                                 Append(conns, Conn("control", "closed", TRUE)))
              /\ wire' = Append(wire, Dialled("tcp", <<>>))
              /\ UNCHANGED ctrlOut
         ELSE /\ ReturnError(PlainErr("connect failed"), streams)
              /\ UNCHANGED <<ctrlOut, wire>>
    /\ UNCHANGED <<silent, req, client, reads, sentParams, cookie>>
    /\ UNCHANGED dataVars
    /\ UNCHANGED <<pvars, tvars, uvars>>

\* readState: io.ReadFull(c.controlConn, buf) returns when the server has sent a
\* byte or the connection has ended; no read deadline is set on the control
\* connection
StateArrives == ~silent

\* ExchangeParams: wait for PARAM_EXCHANGE, send the framed parameters
ExchangeParams ==
    /\ pc = "ParamExchange"
    /\ StateArrives
    /\ \E ok \in BOOLEAN, w \in ServerBytes, written \in BOOLEAN :
         LET b == Int8(w) IN
         /\ reads' = Append(reads, Read(PARAM_EXCHANGE, IF ok THEN w ELSE 0, ok))
         /\ IF ~ok THEN
                /\ ReturnError(PlainErr("read initial state"), streams)
                /\ UNCHANGED <<ctrlOut, sentParams>>
            ELSE IF b = ACCESS_DENIED THEN
                /\ ReturnError(PlainErr("server denied access"), streams)
                /\ UNCHANGED <<ctrlOut, sentParams>>
            ELSE IF b = SERVER_ERROR THEN
                /\ ReturnError(PlainErr("server error"), streams)
                /\ UNCHANGED <<ctrlOut, sentParams>>
            ELSE IF b # PARAM_EXCHANGE THEN
                /\ ReturnError(UnexpectedErr(b, PARAM_EXCHANGE), streams)
                /\ UNCHANGED <<ctrlOut, sentParams>>
            ELSE IF ~written THEN
                /\ ReturnError(PlainErr("send params"), streams)
                /\ UNCHANGED <<ctrlOut, sentParams>>
            ELSE
                /\ sentParams' = Iperf3Params(client)
                /\ ctrlOut' = writeJSON(ctrlOut, "params")
                /\ pc' = "CreateStreams"
                /\ trace' = Append(trace, "CreateStreams")
                /\ UNCHANGED <<err, result, streams, resp, hpc, conns>>
    /\ UNCHANGED <<silent, req, client, dials, cookie, wire>>
    /\ UNCHANGED dataVars
    /\ UNCHANGED <<pvars, tvars, uvars>>

\* CreateStreams: wait for CREATE_STREAMS, open c.Parallel data connections
\* and send the cookie on each; opened = connections made before a failure
CreateStreams ==
    /\ pc = "CreateStreams"
    /\ StateArrives
    /\ \E ok \in BOOLEAN, w \in ServerBytes, opened \in 0..client.Parallel,
          dialed \in BOOLEAN :
         LET b == Int8(w) IN
         /\ reads' = Append(reads, Read(CREATE_STREAMS, IF ok THEN w ELSE 0, ok))
         /\ IF ~ok THEN
                /\ ReturnError(PlainErr("read state"), streams)
                /\ UNCHANGED <<dials, wire>>
            ELSE IF b # CREATE_STREAMS THEN
                /\ ReturnError(UnexpectedErr(b, CREATE_STREAMS), streams)
                /\ UNCHANGED <<dials, wire>>
            ELSE IF opened < client.Parallel /\ ~dialed THEN
                /\ ReturnErrorWith(PlainErr("create stream"),
                                   [i \in 1..opened |-> "open"],
                                   conns \o [i \in 1..opened |-> Conn("stream", "open", TRUE)])
                /\ wire' = wire \o [i \in 1..opened |-> StreamDialled(client, cookie)]
                /\ dials' = dials + opened + 1
            ELSE IF opened < client.Parallel THEN
                \* the cookie write on the next stream failed: conn.Close(),
                \* and the connection is not appended to c.streams
                /\ ReturnErrorWith(PlainErr("send cookie on stream"),
                                   [i \in 1..opened |-> "open"],
                                   (conns \o [i \in 1..opened |-> Conn("stream", "open", TRUE)])
                                       \o <<Conn("stream", "closed", FALSE)>>)
                /\ wire' = (wire \o [i \in 1..opened |-> StreamDialled(client, cookie)])
                                \o <<Dialled(Network(client), <<>>)>>
                /\ dials' = dials + opened + 1
            ELSE
                /\ streams' = [i \in 1..opened |-> "open"]
                /\ conns' = conns \o [i \in 1..opened |-> Conn("stream", "open", TRUE)]
                /\ wire' = wire \o [i \in 1..opened |-> StreamDialled(client, cookie)]
                /\ dials' = dials + opened
                /\ pc' = "TestStart"
                /\ trace' = Append(trace, "TestStart")
                /\ UNCHANGED <<err, result, resp, hpc>>
    /\ UNCHANGED <<silent, req, client, ctrlOut, sentParams, cookie>>
    /\ UNCHANGED dataVars
    /\ UNCHANGED <<pvars, tvars, uvars>>

\* RunTest, first read: wait for TEST_START
RunTestStart ==
    /\ pc = "TestStart"
    /\ StateArrives
    /\ \E ok \in BOOLEAN, w \in ServerBytes :
         LET b == Int8(w) IN
         /\ reads' = Append(reads, Read(TEST_START, IF ok THEN w ELSE 0, ok))
         /\ IF ~ok THEN ReturnError(PlainErr("read state"), streams)
            ELSE IF b # TEST_START THEN ReturnError(UnexpectedErr(b, TEST_START), streams)
            ELSE /\ pc' = "TestRunning"
                 /\ trace' = Append(trace, "TestRunning")
                 /\ UNCHANGED <<err, result, streams, resp, hpc, conns>>
    /\ UNCHANGED <<silent, req, client, ctrlOut, sentParams, dials, cookie, wire>>
    /\ UNCHANGED dataVars
    /\ UNCHANGED <<pvars, tvars, uvars>>

\* RunTest, second read: wait for TEST_RUNNING, then enter sendData / receiveData
RunTestRunning ==
    /\ pc = "TestRunning"
    /\ StateArrives
    /\ \E ok \in BOOLEAN, w \in ServerBytes :
         LET b == Int8(w) IN
         /\ reads' = Append(reads, Read(TEST_RUNNING, IF ok THEN w ELSE 0, ok))
         /\ IF ~ok THEN
                /\ ReturnError(PlainErr("read state"), streams)
                /\ UNCHANGED memWrites
            ELSE IF b # TEST_RUNNING THEN
                /\ ReturnError(UnexpectedErr(b, TEST_RUNNING), streams)
                /\ UNCHANGED memWrites
            ELSE /\ pc' = "Running"
                 \* sendData fills its payload buffer (rand.Read(buffer)) before
                 \* it starts a goroutine; receiveData only allocates its buffer
                 /\ memWrites' = IF client.Reverse THEN memWrites
                                 ELSE memWrites \cup {MemWrite("buffer", 0, 0, FALSE, spawned > 0)}
                 /\ UNCHANGED <<trace, err, result, streams, resp, hpc, conns>>
    /\ UNCHANGED <<silent, req, client, ctrlOut, sentParams, dials, cookie, wire>>
    /\ UNCHANGED <<spawned, wg, wpc, ioCount, streamBytes, tmp, mu, totalBytes, expired, res,
                   ioFailed, sleepTime>>
    /\ UNCHANGED <<pvars, tvars, uvars>>

\* sendData / receiveData, the loop over c.streams: wg.Add(1); go func(conn)
Spawn ==
    /\ pc = "Running"
    /\ spawned < Len(streams)
    /\ spawned' = spawned + 1
    /\ wg' = wg + 1
    /\ wpc' = [wpc EXCEPT ![spawned + 1] = "check"]
    /\ UNCHANGED <<ioCount, streamBytes, tmp, mu, totalBytes, expired, res, ioFailed, sleepTime,
                   memWrites>>
    /\ UNCHANGED <<silent, req, hpc, resp, client, pc, err, result, reads, ctrlOut, trace,
                   sentParams, streams, dials, conns, cookie, wire>>
    /\ UNCHANGED <<pvars, tvars, uvars>>

ctlVars == <<req, hpc, resp, client, pc, err, result, reads, ctrlOut, trace,
             sentParams, streams, dials, spawned, res, conns, cookie, wire, silent>>

\* the wall clock passes the shared deadline
Tick ==
    /\ pc = "Running"
    /\ ~expired
    /\ expired' = TRUE
    /\ UNCHANGED <<wg, wpc, ioCount, streamBytes, tmp, mu, totalBytes, ioFailed, sleepTime>>
    /\ UNCHANGED memWrites
    /\ UNCHANGED ctlVars
    /\ UNCHANGED <<pvars, tvars, uvars>>

\* worker loop head: for time.Now().Before(deadline)
WorkerCheck(i) ==
    /\ wpc[i] = "check"
    /\ wpc' = [wpc EXCEPT ![i] = IF expired THEN "lock" ELSE "io"]
    /\ sleepTime' = [sleepTime EXCEPT ![i] = 0]
    /\ UNCHANGED <<wg, ioCount, streamBytes, tmp, mu, totalBytes, expired, ioFailed>>
    /\ UNCHANGED memWrites
    /\ UNCHANGED ctlVars
    /\ UNCHANGED <<pvars, tvars, uvars>>

\* bytes one successful I/O call returns: the whole chunk on a write,
\* anything from one byte to the buffer on a read
chunkSize(c) == Min(MaxChunk, c.BlockSize)
IOSizes(c) == IF c.Reverse THEN {1, c.BlockSize} ELSE {chunkSize(c)}

\* the pause the pacing computes after a write, in ms: none when the worker is
\* not ahead of schedule, else excessBytes / targetBytesPerSec
SleepTimes == {0, 99, 100}
\* if sleepTime > 0 && sleepTime < 100*time.Millisecond { time.Sleep(sleepTime) }:
\* the time slept
\* (mutant: the pause is capped at 100 ms)
SleptCapped(st) == Min(st, 100)
Slept(st) == IF st > 0 /\ st < 100 THEN st ELSE 0

\* if err != nil { break }: the worker leaves its loop and goes on to add its
\* counter to the shared total
\* (mutant: the worker returns at once, its counter is never added)
AfterIOErrorReturn == "unlock"
AfterIOError == "lock"

\* what a successful I/O call of worker i writes: streamBytes += int64(n), and
\* in receiveData conn.Read(buffer) fills the buffer made before the loop over
\* c.streams; conn.Write(buffer) only reads its buffer
IOWrites(i) ==
    {MemWrite("streamBytes", i, i, mu = i, spawned > 0)}
        \cup (IF client.Reverse THEN {MemWrite("buffer", 0, i, mu = i, spawned > 0)} ELSE {})

\* conn.Write(buffer) / conn.Read(buffer): an error (always, once the deadline
\* set on the connection has passed) ends the loop without counting; a write
\* that succeeded is followed by the pacing pause
WorkerIO(i) ==
    /\ wpc[i] = "io"
    /\ ioCount' = [ioCount EXCEPT ![i] = @ + 1]
    /\ \/ /\ ~expired
          /\ ioCount[i] < MaxIO
          /\ \E n \in IOSizes(client) :
               streamBytes' = [streamBytes EXCEPT ![i] = @ + n]
          /\ memWrites' = memWrites \cup IOWrites(i)
          /\ \E st \in SleepTimes :
               sleepTime' = [sleepTime EXCEPT ![i] = IF client.Reverse THEN 0 ELSE Slept(st)]
          /\ wpc' = [wpc EXCEPT ![i] = "check"]
          /\ UNCHANGED ioFailed
       \/ /\ wpc' = [wpc EXCEPT ![i] = AfterIOError]
          /\ ioFailed' = [ioFailed EXCEPT ![i] = streamBytes[i]]
          /\ UNCHANGED <<streamBytes, sleepTime, memWrites>>
    /\ UNCHANGED <<wg, tmp, mu, totalBytes, expired>>
    /\ UNCHANGED ctlVars
    /\ UNCHANGED <<pvars, tvars, uvars>>

\* mu.Lock() blocks until the mutex is free
\* (mutant: the += is not guarded by the mutex)
MutexIgnored(m) == TRUE
MutexFree(m) == m = 0

WorkerLock(i) ==
    /\ wpc[i] = "lock"
    /\ MutexFree(mu)
    /\ mu' = i
    /\ wpc' = [wpc EXCEPT ![i] = "load"]
    /\ UNCHANGED <<wg, ioCount, streamBytes, tmp, totalBytes, expired, ioFailed, sleepTime>>
    /\ UNCHANGED memWrites
    /\ UNCHANGED ctlVars
    /\ UNCHANGED <<pvars, tvars, uvars>>

\* totalBytes += streamBytes is a load ...
WorkerLoad(i) ==
    /\ wpc[i] = "load"
    /\ tmp' = [tmp EXCEPT ![i] = totalBytes]
    /\ wpc' = [wpc EXCEPT ![i] = "store"]
    /\ UNCHANGED <<wg, ioCount, streamBytes, mu, totalBytes, expired, ioFailed, sleepTime>>
    /\ UNCHANGED memWrites
    /\ UNCHANGED ctlVars
    /\ UNCHANGED <<pvars, tvars, uvars>>

\* ... followed by a store
WorkerStore(i) ==
    /\ wpc[i] = "store"
    /\ totalBytes' = tmp[i] + streamBytes[i]
    /\ memWrites' = memWrites \cup {MemWrite("totalBytes", 0, i, mu = i, spawned > 0)}
    \* the loaded value is not used again
    /\ tmp' = [tmp EXCEPT ![i] = 0]
    /\ wpc' = [wpc EXCEPT ![i] = "unlock"]
    /\ UNCHANGED <<wg, ioCount, streamBytes, mu, expired, ioFailed, sleepTime>>
    /\ UNCHANGED ctlVars
    /\ UNCHANGED <<pvars, tvars, uvars>>

\* mu.Unlock(), then the deferred wg.Done() as the goroutine returns
WorkerUnlock(i) ==
    /\ wpc[i] = "unlock"
    /\ mu' = 0
    /\ wg' = wg - 1
    /\ wpc' = [wpc EXCEPT ![i] = "done"]
    /\ UNCHANGED <<ioCount, streamBytes, tmp, totalBytes, expired, ioFailed, sleepTime>>
    /\ UNCHANGED memWrites
    /\ UNCHANGED ctlVars
    /\ UNCHANGED <<pvars, tvars, uvars>>

\* wg.Wait() returns once every goroutine called wg.Done()
\* (mutant: the controller does not wait for the goroutines)
WaitSkipped(started, counter) == started = Len(streams)
WaitReturns(started, counter) == started = Len(streams) /\ counter = 0

\* sendData / receiveData return; RunTest stores the total and signals TEST_END
RunTestEnd ==
    /\ pc = "Running"
    /\ WaitReturns(spawned, wg)
    /\ res' = IF client.Reverse
              THEN [SentBytes |-> 0, ReceivedBytes |-> totalBytes]
              ELSE [SentBytes |-> totalBytes, ReceivedBytes |-> 0]
    /\ ctrlOut' = writeState(ctrlOut, TEST_END)
    /\ pc' = "TestEnd"
    /\ trace' = Append(trace, "TestEnd")
    \* the locals of sendData / receiveData and of its goroutines are gone
    /\ totalBytes' = 0
    /\ streamBytes' = [i \in Workers |-> 0]
    /\ tmp' = [i \in Workers |-> 0]
    /\ ioCount' = [i \in Workers |-> 0]
    /\ memWrites' = {}
    /\ UNCHANGED <<silent, req, hpc, resp, client, err, result, reads, sentParams, streams,
                   dials, spawned, conns, cookie, wire>>
    /\ UNCHANGED <<wg, wpc, mu, expired, ioFailed, sleepTime>>
    /\ UNCHANGED <<pvars, tvars, uvars>>

\* RunTest: wait for EXCHANGE_RESULTS; only then send the empty results and
\* read (and ignore) the server's; a read error or another byte is passed over
RunTestExchange ==
    /\ pc = "TestEnd"
    /\ StateArrives
    /\ \E ok \in BOOLEAN, w \in TailBytes :
         LET b == Int8(w) IN
         /\ reads' = Append(reads, Read(EXCHANGE_RESULTS, IF ok THEN w ELSE 0, ok))
         /\ ctrlOut' = IF ok /\ b = EXCHANGE_RESULTS
                       THEN writeJSON(ctrlOut, "{}") ELSE ctrlOut
    /\ pc' = "ExchangeResults"
    /\ trace' = Append(trace, "ExchangeResults")
    /\ UNCHANGED <<silent, req, hpc, resp, client, err, result, sentParams, streams, dials, conns,
                   cookie, wire>>
    /\ UNCHANGED dataVars
    /\ UNCHANGED <<pvars, tvars, uvars>>

\* RunTest: wait for DISPLAY_RESULTS, answer IPERF_DONE, return the result
RunTestDisplay ==
    /\ pc = "ExchangeResults"
    /\ StateArrives
    /\ \E ok \in BOOLEAN, w \in TailBytes :
         LET b == Int8(w) IN
         /\ reads' = Append(reads, Read(DISPLAY_RESULTS, IF ok THEN w ELSE 0, ok))
         /\ IF ok /\ b = DISPLAY_RESULTS
            THEN /\ ctrlOut' = writeState(ctrlOut, IPERF_DONE)
                 /\ ReturnResult(Append(trace, "DisplayResults"))
            ELSE /\ ctrlOut' = ctrlOut
                 /\ ReturnResult(trace)
    /\ UNCHANGED <<silent, req, client, sentParams, dials, cookie, wire>>
    /\ UNCHANGED dataVars
    /\ UNCHANGED <<pvars, tvars, uvars>>

Worker(i) ==
    \/ WorkerCheck(i)
    \/ WorkerIO(i)
    \/ WorkerLock(i)
    \/ WorkerLoad(i)
    \/ WorkerStore(i)
    \/ WorkerUnlock(i)

Next ==
    \/ iperfClientRun
    \/ Connect
    \/ ExchangeParams
    \/ CreateStreams
    \/ RunTestStart
    \/ RunTestRunning
    \/ Spawn
    \/ Tick
    \/ \E i \in Workers : Worker(i)
    \/ RunTestEnd
    \/ RunTestExchange
    \/ RunTestDisplay

\* the pacing worker is not part of this specification
PacingOff ==
    /\ pcfg = NoClient
    /\ ppc = "off"
    /\ pnow = 0
    /\ pbytes = 0


---------------------------------------------------------------------------
(* Claims about the iperf3 session *)

Mismatch(r) == r.ok /\ r.observed # r.expected
RunningObserved == \E k \in 1..Len(reads) : reads[k] = Read(TEST_RUNNING, TEST_RUNNING, TRUE)
TestEndWritten == \E k \in 1..Len(ctrlOut) : ctrlOut[k] = StateMsg(TEST_END)

\* C1: in every phase, a state byte other than the expected one sends the
\* session to Failed and iperf3Test returns an error that carries the observed
\* and the expected state; no success result follows such a byte.
C1_UnexpectedStateFails ==
    \A k \in 1..Len(reads) :
        Mismatch(reads[k]) =>
            /\ pc = "Failed"
            /\ result = "error"
            /\ err.kind \in {"unexpected state", "server denied access", "server error"}
            /\ err.kind = "unexpected state" =>
                  /\ err.observed = reads[k].observed
                  /\ err.expected = reads[k].expected

\* C2: no worker does I/O on its data stream before the controller has read
\* TEST_RUNNING, and TEST_END is on the control channel only once every worker
\* has exited.
C2_DataPlaneOrdering ==
    /\ \A i \in Workers : (ioCount[i] > 0 \/ wpc[i] = "io") => RunningObserved
    /\ TestEndWritten => \A i \in 1..Len(streams) : wpc[i] = "done"

C2_Witness ==
    /\ TestEndWritten
    /\ Len(streams) >= 2
    /\ res.SentBytes + res.ReceivedBytes > 0

HappyScript ==
    << Read(PARAM_EXCHANGE, PARAM_EXCHANGE, TRUE), Read(CREATE_STREAMS, CREATE_STREAMS, TRUE),
       Read(TEST_START, TEST_START, TRUE), Read(TEST_RUNNING, TEST_RUNNING, TRUE),
       Read(EXCHANGE_RESULTS, EXCHANGE_RESULTS, TRUE),
       Read(DISPLAY_RESULTS, DISPLAY_RESULTS, TRUE) >>

\* C3: against the server script 9, 10, 1, 2, 13, 14 the session enters
\* Connecting, ParamExchange, CreateStreams, TestStart, TestRunning, TestEnd,
\* ExchangeResults, DisplayResults, Done once each in that order, and the control
\* channel carries exactly: cookie, framed parameters, state 4, framed {}, state 16.
C3_HappyPath ==
    (pc = "Done" /\ reads = HappyScript) =>
        /\ trace = << "Connecting", "ParamExchange", "CreateStreams", "TestStart",
                      "TestRunning", "TestEnd", "ExchangeResults", "DisplayResults",
                      "Done" >>
        /\ ctrlOut = << CookieMsg, JsonMsg("params"), StateMsg(TEST_END),
                        JsonMsg("{}"), StateMsg(IPERF_DONE) >>
        /\ CookieMsg.state = 37

C3_Witness == pc = "Done" /\ reads = HappyScript /\ Len(streams) >= 2

RECURSIVE SumBytes(_)
SumBytes(S) ==
    IF S = {} THEN 0
    ELSE LET i == CHOOSE x \in S : TRUE IN streamBytes[i] + SumBytes(S \ {i})

\* C4: the shared total is the sum of the counters of the workers that have
\* added theirs, so what sendData / receiveData returns when wg.Wait returns is
\* the sum over all workers: nothing lost, overwritten or counted twice.
C4_TotalIsSum ==
    pc = "Running" =>
        totalBytes = SumBytes({i \in Workers : wpc[i] \in {"unlock", "done"}})

C4_Witness ==
    /\ pc = "Running"
    /\ WaitReturns(spawned, wg)
    /\ Len(streams) >= 2
    /\ streamBytes[1] > 0
    /\ streamBytes[2] > streamBytes[1]

---------------------------------------------------------------------------
(* Claims about the request handler *)

\* C9: a request whose server_host is missing or empty is rejected with HTTP 400
\* and the envelope {status "error", error "server_host is required"}, and no
\* connection is attempted for it.
C9_MissingHostRejected ==
    (~req.malformed /\ req.ServerHost = "") =>
        /\ dials = 0
        /\ hpc = "responded" =>
              resp = jsonResponse("error", "server_host is required", {}, 400)

\* C10: every failing request, a body that is not valid JSON included, is
\* answered with the JSON envelope {status "error", error non-empty}, with code
\* 400 for malformed input and 500 for a measurement failure; no response has
\* status "ok" together with an error.
C10_ErrorEnvelope ==
    hpc = "responded" =>
        /\ req.malformed =>
              /\ resp.json /\ resp.status = "error" /\ resp.error # ""
              /\ resp.code = 400
        /\ result = "error" =>
              /\ resp.json /\ resp.status = "error" /\ resp.error # ""
              /\ resp.code = 500
        /\ ~(resp.status = "ok" /\ resp.error # "")

\* C11: every successful iperf3 response document contains exactly one of
\* sent_bytes and received_bytes: received_bytes iff the request had reverse = true,
\* sent_bytes otherwise.
C11_OneByteCountKey ==
    (hpc = "responded" /\ resp.status = "ok") =>
        /\ ("received_bytes" \in resp.keys) <=> req.Reverse
        /\ ("sent_bytes" \in resp.keys) <=> ~req.Reverse

C11_Witness ==
    /\ hpc = "responded"
    /\ resp.status = "ok"
    /\ req.Reverse
    /\ "received_bytes" \in resp.keys
    /\ res.ReceivedBytes > 0

\* a request that supplies only the target host
HostOnly ==
    /\ ~req.malformed
    /\ req.ServerHost = "h"
    /\ req.ServerPort = 0 /\ req.Duration = 0 /\ req.Parallel = 0
    /\ req.Protocol = "" /\ ~req.Reverse /\ req.Bandwidth = 0

\* C12: a request that supplies only the target host produces a session with
\* port 5201, protocol TCP, 1 parallel stream, duration 5 s, bandwidth
\* 100 Mbit/s and block size 131072, and the parameter JSON sent to the server
\* carries tcp = true, time = 5, parallel = 1, len = 131072.
C12_HostOnlyDefaults ==
    HostOnly =>
        /\ hpc # "recv" =>
              /\ client.Host = "h" /\ client.Port = 5201
              /\ client.Protocol = "TCP" /\ client.Parallel = 1
              /\ client.Duration = 5 /\ client.Bandwidth = 100000000
              /\ client.BlockSize = 131072
        /\ sentParams # NoParams =>
              /\ sentParams.tcp /\ ~sentParams.udp
              /\ sentParams.time = 5 /\ sentParams.parallel = 1
              /\ sentParams.len = 131072

C12_Witness ==
    /\ HostOnly
    /\ sentParams # NoParams
    /\ Len(ctrlOut) >= 2
    /\ ctrlOut[2] = JsonMsg("params")

\* C20: on every return path of iperf3Test (success, connect failure,
\* cookie-send failure, parameter-exchange failure, stream-creation failure
\* after k < parallelStreams streams were already opened, failure during the
\* test) every connection that was opened, the control connection and each
\* data stream, has been closed by the time it returns.
C20_AllConnectionsClosed ==
    hpc = "responded" => \A i \in DOMAIN conns : conns[i].state = "closed"

\* stream creation failed after one stream was opened
C20_Witness ==
    /\ hpc = "responded"
    /\ err.kind = "create stream"
    /\ Len(conns) = 2
    /\ conns[1] = Conn("control", "closed", TRUE)
    /\ conns[2] = Conn("stream", "closed", TRUE)

---------------------------------------------------------------------------
(* The token-bucket pacing loop of sendData, one worker, on a sink that never
   blocks.  Time is in ms since the worker's startTime, which is also the start
   of the test, so the shared deadline is Duration * 1000.  The workers of one
   test run the same loop on identical sinks; one of them is modelled and the
   total is Parallel times its count. *)

PaceMbps == {1, 100}
PaceDurations == {2}
PaceProtocols == {"TCP", "UDP"}

\* bytes per ms the whole test is allotted: Bandwidth / 8 / 1000
RatePerMs(c) == c.Bandwidth \div 8000
DeadlineMs(c) == c.Duration * 1000

\* (actualBytes - expectedBytes) * Parallel, with
\* expectedBytes = targetBytesPerSec * elapsed, targetBytesPerSec = Bandwidth / Parallel / 8
Excess(c, bytes, elapsed) == bytes * c.Parallel - RatePerMs(c) * elapsed

\* sleepTime = excessBytes / targetBytesPerSec, rounded up to whole ms
SleepMs(c, bytes, elapsed) ==
    (Excess(c, bytes, elapsed) + RatePerMs(c) - 1) \div RatePerMs(c)

\* if actualBytes > expectedBytes and sleepTime > 0 && sleepTime < 100ms
Sleeps(c, bytes, elapsed) ==
    /\ Excess(c, bytes, elapsed) > 0
    /\ Excess(c, bytes, elapsed) < 100 * RatePerMs(c)

\* configurations whose pacing interval per chunk is not below the time the
\* sink takes for one write
PaceConfigs ==
    {c \in {NewIperf3Client("h", 5201, d, p, prot, FALSE, mbps) :
              d \in PaceDurations, p \in 1..MaxParallel, prot \in PaceProtocols,
              mbps \in PaceMbps} :
        chunkSize(c) * c.Parallel >= WriteCostMs * RatePerMs(c)}

InitPacing ==
    /\ pcfg \in PaceConfigs
    /\ ppc = "check"
    /\ pnow = 0
    /\ pbytes = 0

\* for time.Now().Before(deadline)
PaceCheck ==
    /\ ppc = "check"
    /\ ppc' = IF pnow < DeadlineMs(pcfg) THEN "write" ELSE "done"
    /\ UNCHANGED <<pcfg, pnow, pbytes>>
    /\ UNCHANGED <<ivars, tvars, uvars>>

\* n, err := conn.Write(buffer); streamBytes += int64(n)
PaceWrite ==
    /\ ppc = "write"
    /\ pbytes' = pbytes + chunkSize(pcfg)
    /\ pnow' = pnow + WriteCostMs
    /\ ppc' = "pace"
    /\ UNCHANGED pcfg
    /\ UNCHANGED <<ivars, tvars, uvars>>

\* the pacing step after a write: sleep when ahead of schedule
PaceSleep ==
    /\ ppc = "pace"
    /\ pnow' = IF Sleeps(pcfg, pbytes, pnow)
               THEN pnow + SleepMs(pcfg, pbytes, pnow) ELSE pnow
    /\ ppc' = "check"
    /\ UNCHANGED <<pcfg, pbytes>>
    /\ UNCHANGED <<ivars, tvars, uvars>>

\* the iperf3 endpoint is not part of this specification
IperfOff ==
    /\ req \in {r \in Requests : r.malformed}
    /\ hpc = "responded"
    /\ resp = NoResp
    /\ client = NoClient
    /\ pc = "Idle"
    /\ err = NoErr
    /\ result = "none"
    /\ reads = <<>>
    /\ ctrlOut = <<>>
    /\ trace = <<>>
    /\ sentParams = NoParams
    /\ streams = <<>>
    /\ dials = 0
    /\ spawned = 0
    /\ wg = 0
    /\ wpc = [i \in Workers |-> "none"]
    /\ ioCount = [i \in Workers |-> 0]
    /\ streamBytes = [i \in Workers |-> 0]
    /\ tmp = [i \in Workers |-> 0]
    /\ mu = 0
    /\ totalBytes = 0
    /\ expired = FALSE
    /\ res = [SentBytes |-> 0, ReceivedBytes |-> 0]
    /\ conns = <<>>
    /\ ioFailed = [i \in Workers |-> -1]
    /\ sleepTime = [i \in Workers |-> 0]
    /\ memWrites = {}
    /\ cookie = <<>>
    /\ wire = <<>>
    /\ silent = FALSE

NextPacing ==
    \/ PaceCheck
    \/ PaceWrite
    \/ PaceSleep


Abs(x) == IF x < 0 THEN -x ELSE x

\* C5: for a sender configured at B bits/s writing to a sink that never blocks,
\* for a test of d >= 2 seconds, the total bytes sent differ from B/8 * d by at
\* most 10 percent.
C5_PacingWithinTenPercent ==
    ppc = "done" =>
        Abs(pbytes * pcfg.Parallel - RatePerMs(pcfg) * DeadlineMs(pcfg))
            <= (RatePerMs(pcfg) * DeadlineMs(pcfg)) \div 10

---------------------------------------------------------------------------
(* The Error Estimate codec and the clock-quality probe *)

RECURSIVE Pow2(_)
Pow2(n) == IF n = 0 THEN 1 ELSE 2 * Pow2(n - 1)

\* x >> k and x & (2^n - 1) on unsigned values
Shr(x, k) == x \div Pow2(k)
LowBits(x, n) == x % Pow2(n)

\* ErrorSeconds: -1, or mant * 2^exp (exact in a float64)
Unavailable == [mant |-> -1, exp |-> 0]

\* (mutant: the scale is masked with 0x7F and takes the Z bit along)
parseErrorEstimateWideScale(ee) ==
    LET unavailable == LowBits(Shr(ee, 14), 1) = 1
        scale == LowBits(Shr(ee, 8), 7)
        multiplier == LowBits(ee, 8)
    IN [fn |-> "parseErrorEstimate",
        Synced |-> LowBits(Shr(ee, 15), 1) = 1, Unavailable |-> unavailable,
        Scale |-> scale, Multiplier |-> multiplier,
        ErrorSeconds |-> IF unavailable \/ multiplier = 0 THEN Unavailable
                         ELSE [mant |-> multiplier, exp |-> -scale]]
\* parseErrorEstimate
parseErrorEstimate(ee) ==
    LET unavailable == LowBits(Shr(ee, 14), 1) = 1
        scale == LowBits(Shr(ee, 8), 6)
        multiplier == LowBits(ee, 8)
    IN [fn |-> "parseErrorEstimate",
        Synced |-> LowBits(Shr(ee, 15), 1) = 1, Unavailable |-> unavailable,
        Scale |-> scale, Multiplier |-> multiplier,
        ErrorSeconds |-> IF unavailable \/ multiplier = 0 THEN Unavailable
                         ELSE [mant |-> multiplier, exp |-> -scale]]

\* the 16-bit field a peer builds from S, Z, Scale and Multiplier
ErrorEstimateField(s, z, scale, multiplier) ==
    (IF s THEN 32768 ELSE 0) + (IF z THEN 16384 ELSE 0) + scale * 256 + multiplier

\* adjtimex return value TIME_ERROR, the error assumed when none is known (in
\* microseconds), and the Error Estimate of the build without adjtimex (0x0101)
timeError == 5
DefaultErrorMicros == 1000000
StubErrorEstimate == 257

\* getNTPStatus (Linux build): errno and status are what the adjtimex syscall
\* returned, unsync = tx.Status & STA_UNSYNC # 0, esterror = tx.Esterror;
\* ErrorSeconds is ErrorMicros / 1e6
getNTPStatus(errno, status, unsync, esterror) ==
    IF errno # 0 THEN [Synced |-> FALSE, ErrorMicros |-> DefaultErrorMicros]
    ELSE [Synced |-> status # timeError /\ ~unsync,
          ErrorMicros |-> IF esterror <= 0 THEN DefaultErrorMicros ELSE esterror]

\* the loop over scale: the first scale whose multiplier errorSeconds * 2^scale
\* lies in [1, 255]; the multiplier is rounded half away from zero
\* (mutant: the rounded multiplier is tested against 1..255)
RECURSIVE FindScaleRounded(_, _)
RECURSIVE FindScaleNoLowerBound(_, _)
RECURSIVE FindScale(_, _)
FindScaleRounded(micros, scale) ==
    IF scale > 63 THEN [scale |-> 1, multiplier |-> 1]
    ELSE LET r == (2 * micros * Pow2(scale) + 1000000) \div 2000000 IN
         IF r >= 1 /\ r <= 255
         THEN [scale |-> scale, multiplier |-> r]
         ELSE FindScaleRounded(micros, scale + 1)
\* (mutant: the multiplier is only tested against 255)
FindScaleNoLowerBound(micros, scale) ==
    IF scale > 63 THEN [scale |-> 1, multiplier |-> 1]
    ELSE LET m == micros * Pow2(scale) IN
         IF m <= 255000000
         THEN [scale |-> scale, multiplier |-> (2 * m + 1000000) \div 2000000]
         ELSE FindScaleNoLowerBound(micros, scale + 1)
FindScale(micros, scale) ==
    IF scale > 63 THEN [scale |-> 1, multiplier |-> 1]
    ELSE LET m == micros * Pow2(scale) IN
         IF m >= 1000000 /\ m <= 255000000
         THEN [scale |-> scale, multiplier |-> (2 * m + 1000000) \div 2000000]
         ELSE FindScale(micros, scale + 1)

\* calculateErrorEstimate of either build
calculateErrorEstimate(build, ntpStatus) ==
    IF build = "other" THEN StubErrorEstimate
    ELSE LET micros == IF ntpStatus.ErrorMicros < 1 THEN 1
                       ELSE IF ntpStatus.ErrorMicros > 100000000 THEN 100000000
                       ELSE ntpStatus.ErrorMicros
             best == FindScale(micros, 0)
         IN (IF ntpStatus.Synced THEN 32768 ELSE 0)
                + LowBits(best.scale, 6) * 256 + best.multiplier

\* checkNTPSync of either build
checkNTPSync(build, ntpStatus) == IF build = "other" THEN FALSE ELSE ntpStatus.Synced

-------------------------------------------------------------------------------------
(* The TWAMP endpoint: twampClientRun and its result analyzer.  Timestamps and
   durations are integer nanoseconds.  The smoothed jitter is kept as the exact
   fraction num / 16^n after n samples; the standard deviation is the integer
   part of the square root, as time.Duration(math.Sqrt(v)) yields. *)

\* Go's integer division truncates toward zero
TruncDiv(a, b) == IF a >= 0 THEN a \div b ELSE -((-a) \div b)

RECURSIVE Pow16(_)
Pow16(n) == IF n = 0 THEN 1 ELSE 16 * Pow16(n - 1)

ISqrt(x) == CHOOSE k \in 0..x : k * k <= x /\ (k + 1) * (k + 1) > x

\* the per-probe quantities of the loop body
RawFwd(p) == p.T2 - p.T1
RawRev(p) == p.T4 - p.T3
Turnaround(p) == p.T3 - p.T2
Offset(f, r) == TruncDiv(f - r, 2)
FwdCorr(f, r) == f - Offset(f, r)
RevCorr(f, r) == r + Offset(f, r)
NetworkRtt(f, r) == f + r
\* (mutant: the delay itself is taken as its variation, the previous one dropped)
IPDVPrevDropped(cur, prev) == cur
IPDV(cur, prev) == cur - prev

\* running minimum / maximum, initialised by the first sample
MinUpd(first, cur, v) == IF first THEN v ELSE IF v < cur THEN v ELSE cur
MaxUpd(first, cur, v) == IF first THEN v ELSE IF v > cur THEN v ELSE cur

\* hop values from the TTLs; the reverse initial TTL is estimated
\* (mutant: a sender TTL of 0 is taken as a value)
FwdHopsValidZeroAccepted(p) == p.SenderTTL <= 255
FwdHopsValid(p) == p.SenderTTL > 0 /\ p.SenderTTL <= 255
FwdHops(p) == 255 - p.SenderTTL
RevHopsValid(p) == p.ReceivedTTL > 0
\* (mutant: the class boundaries are taken one too low)
InitialTTLInclusive(ttl) == IF ttl >= 128 THEN 255 ELSE IF ttl >= 64 THEN 128 ELSE 64
InitialTTL(ttl) == IF ttl > 128 THEN 255 ELSE IF ttl > 64 THEN 128 ELSE 64
RevHops(p) == InitialTTL(p.ReceivedTTL) - p.ReceivedTTL

\* var senderErrorInfo, reflectorErrorInfo ErrorEstimateInfo: Go's zero value
ZeroErrorInfo ==
    [Synced |-> FALSE, Unavailable |-> FALSE, Scale |-> 0, Multiplier |-> 0,
     ErrorSeconds |-> [mant |-> 0, exp |-> 0]]

\* the ErrorEstimateInfo parseErrorEstimate returns
ErrorInfo(ee) ==
    LET d == parseErrorEstimate(ee)
    IN [Synced |-> d.Synced, Unavailable |-> d.Unavailable, Scale |-> d.Scale,
        Multiplier |-> d.Multiplier, ErrorSeconds |-> d.ErrorSeconds]

ZeroAcc ==
    [validCount |-> 0,
     fwdMin |-> 0, fwdMax |-> 0, fwdTotal |-> 0,
     revMin |-> 0, revMax |-> 0, revTotal |-> 0,
     fwdCorrMin |-> 0, fwdCorrMax |-> 0, fwdCorrTotal |-> 0,
     revCorrMin |-> 0, revCorrMax |-> 0, revCorrTotal |-> 0,
     offsetTotal |-> 0,
     turnaroundMin |-> 0, turnaroundMax |-> 0, turnaroundTotal |-> 0,
     networkRttMin |-> 0, networkRttMax |-> 0, networkRttTotal |-> 0,
     networkRttSquaredTotal |-> 0,
     prevRawFwd |-> 0, prevRawRev |-> 0,
     fwdIPDVMin |-> 0, fwdIPDVMax |-> 0, fwdIPDVTotal |-> 0,
     revIPDVMin |-> 0, revIPDVMax |-> 0, revIPDVTotal |-> 0,
     fwdIPDVAbsTotal |-> 0, revIPDVAbsTotal |-> 0, ipdvCount |-> 0,
     fwdJitterRFC3550 |-> 0, revJitterRFC3550 |-> 0,
     fwdHopsMin |-> 0, fwdHopsMax |-> 0, fwdHopsTotal |-> 0,
     revHopsMin |-> 0, revHopsMax |-> 0, revHopsTotal |-> 0,
     hopsCount |-> 0,
     senderErrorRaw |-> 0, reflectorErrorRaw |-> 0,
     senderErrorInfo |-> ZeroErrorInfo, reflectorErrorInfo |-> ZeroErrorInfo,
     reflectorSynced |-> FALSE]

\* J = J + (|D| - J) / 16 on the numerator of J = num / 16^n
\* (mutant: the sample is taken with its sign)
JitterUpdSigned(num, n, d) == 15 * num + d * Pow16(n)
JitterUpd(num, n, d) == 15 * num + Abs(d) * Pow16(n)

\* if validCount > 0: there is an earlier valid probe to difference against
\* (mutant: the first valid probe is differenced against the zero values)
HasPrevAlways(a) == TRUE
HasPrev(a) == a.validCount > 0

\* if validCount == 0: the Error Estimate fields are parsed once
\* (mutant: they are parsed for every valid probe)
ParseEveryProbe(a) == TRUE
ParseOnce(a) == a.validCount = 0

\* the loop body after the test for a lost packet
AnalyzeValid(a, p) ==
    LET rawFwd == RawFwd(p)
        rawRev == RawRev(p)
        turnaround == Turnaround(p)
        fwdCorr == FwdCorr(rawFwd, rawRev)
        revCorr == RevCorr(rawFwd, rawRev)
        networkRtt == NetworkRtt(rawFwd, rawRev)
        first == a.validCount = 0
        hfirst == a.hopsCount = 0
        ifirst == a.ipdvCount = 0
        hasIPDV == HasPrev(a)
        fwdIPDV == IPDV(rawFwd, a.prevRawFwd)
        revIPDV == IPDV(rawRev, a.prevRawRev)
        fh == FwdHopsValid(p)
        rh == RevHopsValid(p)
        once == ParseOnce(a)
    IN [a EXCEPT
         !.senderErrorRaw = IF once THEN p.SenderErrorEstimate ELSE @,
         !.reflectorErrorRaw = IF once THEN p.ErrorEstimate ELSE @,
         !.senderErrorInfo = IF once THEN ErrorInfo(p.SenderErrorEstimate) ELSE @,
         !.reflectorErrorInfo = IF once THEN ErrorInfo(p.ErrorEstimate) ELSE @,
         !.reflectorSynced = IF once THEN ErrorInfo(p.ErrorEstimate).Synced ELSE @,
         !.fwdHopsMin = IF fh THEN MinUpd(hfirst, @, FwdHops(p)) ELSE @,
         !.fwdHopsMax = IF fh THEN MaxUpd(hfirst, @, FwdHops(p)) ELSE @,
         !.fwdHopsTotal = IF fh THEN @ + FwdHops(p) ELSE @,
         !.revHopsMin = IF rh THEN MinUpd(hfirst, @, RevHops(p)) ELSE @,
         !.revHopsMax = IF rh THEN MaxUpd(hfirst, @, RevHops(p)) ELSE @,
         !.revHopsTotal = IF rh THEN @ + RevHops(p) ELSE @,
         !.hopsCount = @ + 1,
         !.fwdIPDVMin = IF hasIPDV THEN MinUpd(ifirst, @, fwdIPDV) ELSE @,
         !.fwdIPDVMax = IF hasIPDV THEN MaxUpd(ifirst, @, fwdIPDV) ELSE @,
         !.revIPDVMin = IF hasIPDV THEN MinUpd(ifirst, @, revIPDV) ELSE @,
         !.revIPDVMax = IF hasIPDV THEN MaxUpd(ifirst, @, revIPDV) ELSE @,
         !.fwdIPDVTotal = IF hasIPDV THEN @ + fwdIPDV ELSE @,
         !.revIPDVTotal = IF hasIPDV THEN @ + revIPDV ELSE @,
         !.fwdIPDVAbsTotal = IF hasIPDV THEN @ + Abs(fwdIPDV) ELSE @,
         !.revIPDVAbsTotal = IF hasIPDV THEN @ + Abs(revIPDV) ELSE @,
         !.fwdJitterRFC3550 = IF hasIPDV THEN JitterUpd(@, a.ipdvCount, fwdIPDV) ELSE @,
         !.revJitterRFC3550 = IF hasIPDV THEN JitterUpd(@, a.ipdvCount, revIPDV) ELSE @,
         !.ipdvCount = IF hasIPDV THEN @ + 1 ELSE @,
         !.prevRawFwd = rawFwd,
         !.prevRawRev = rawRev,
         !.fwdMin = MinUpd(first, @, rawFwd),
         !.fwdMax = MaxUpd(first, @, rawFwd),
         !.revMin = MinUpd(first, @, rawRev),
         !.revMax = MaxUpd(first, @, rawRev),
         !.fwdCorrMin = MinUpd(first, @, fwdCorr),
         !.fwdCorrMax = MaxUpd(first, @, fwdCorr),
         !.revCorrMin = MinUpd(first, @, revCorr),
         !.revCorrMax = MaxUpd(first, @, revCorr),
         !.turnaroundMin = MinUpd(first, @, turnaround),
         !.turnaroundMax = MaxUpd(first, @, turnaround),
         !.networkRttMin = MinUpd(first, @, networkRtt),
         !.networkRttMax = MaxUpd(first, @, networkRtt),
         !.fwdTotal = @ + rawFwd,
         !.revTotal = @ + rawRev,
         !.turnaroundTotal = @ + turnaround,
         !.fwdCorrTotal = @ + fwdCorr,
         !.revCorrTotal = @ + revCorr,
         !.offsetTotal = @ + Offset(rawFwd, rawRev),
         !.networkRttTotal = @ + networkRtt,
         !.networkRttSquaredTotal = @ + networkRtt * networkRtt,
         !.validCount = @ + 1]

\* (mutant: a lost packet is not skipped)
AnalyzeProbeLostCounted(a, p) == AnalyzeValid(a, p)
\* one iteration of the loop over results.Results
AnalyzeProbe(a, p) == IF p.lost THEN a ELSE AnalyzeValid(a, p)

\* the loop-body locals, kept for the per-probe claims
Locals(p) ==
    [valid |-> ~p.lost, T1 |-> p.T1, T2 |-> p.T2, T3 |-> p.T3, T4 |-> p.T4,
     rawFwd |-> RawFwd(p), rawRev |-> RawRev(p),
     offset |-> Offset(RawFwd(p), RawRev(p)),
     fwdCorr |-> FwdCorr(RawFwd(p), RawRev(p)),
     revCorr |-> RevCorr(RawFwd(p), RawRev(p)),
     networkRtt |-> NetworkRtt(RawFwd(p), RawRev(p))]

\* the statistics computed after the loop, as they go into the document
Avg(total, n) == IF n > 0 THEN TruncDiv(total, n) ELSE 0
StdDev(a) ==
    IF a.validCount > 0
    THEN LET mean == TruncDiv(a.networkRttTotal, a.validCount)
             v == a.networkRttSquaredTotal - a.validCount * mean * mean
         IN IF v > 0 THEN ISqrt(v \div a.validCount) ELSE 0
    ELSE 0
Report(a) ==
    [rtt |-> [min |-> a.networkRttMin, max |-> a.networkRttMax,
              avg |-> Avg(a.networkRttTotal, a.validCount), stddev |-> StdDev(a)],
     forward_ipdv |-> [min |-> a.fwdIPDVMin, max |-> a.fwdIPDVMax,
                       avg |-> Avg(a.fwdIPDVTotal, a.ipdvCount),
                       mean_abs |-> Avg(a.fwdIPDVAbsTotal, a.ipdvCount)],
     reverse_ipdv |-> [min |-> a.revIPDVMin, max |-> a.revIPDVMax,
                       avg |-> Avg(a.revIPDVTotal, a.ipdvCount),
                       mean_abs |-> Avg(a.revIPDVAbsTotal, a.ipdvCount)],
     forward_jitter |-> [num |-> a.fwdJitterRFC3550, den |-> Pow16(a.ipdvCount)],
     reverse_jitter |-> [num |-> a.revJitterRFC3550, den |-> Pow16(a.ipdvCount)],
     forward_delay_raw |-> [min |-> a.fwdMin, max |-> a.fwdMax,
                            avg |-> Avg(a.fwdTotal, a.validCount)],
     reverse_delay_raw |-> [min |-> a.revMin, max |-> a.revMax,
                            avg |-> Avg(a.revTotal, a.validCount)],
     forward_delay_corrected |-> [min |-> a.fwdCorrMin, max |-> a.fwdCorrMax,
                                  avg |-> Avg(a.fwdCorrTotal, a.validCount)],
     reverse_delay_corrected |-> [min |-> a.revCorrMin, max |-> a.revCorrMax,
                                  avg |-> Avg(a.revCorrTotal, a.validCount)],
     reflector_turnaround |-> [min |-> a.turnaroundMin, max |-> a.turnaroundMax,
                               avg |-> Avg(a.turnaroundTotal, a.validCount)],
     estimated_clock_offset |-> Avg(a.offsetTotal, a.validCount),
     hops_forward |-> [min |-> a.fwdHopsMin, max |-> a.fwdHopsMax,
                       avgNum |-> IF a.hopsCount > 0 THEN a.fwdHopsTotal ELSE 0,
                       avgDen |-> IF a.hopsCount > 0 THEN a.hopsCount ELSE 1],
     hops_reverse |-> [min |-> a.revHopsMin, max |-> a.revHopsMax,
                       avgNum |-> IF a.hopsCount > 0 THEN a.revHopsTotal ELSE 0,
                       avgDen |-> IF a.hopsCount > 0 THEN a.hopsCount ELSE 1]]

\* fmt.Sprintf("0x%04X", raw): the four hexadecimal digits of a uint16
Hex4(x) == <<x \div 4096, (x \div 256) % 16, (x \div 16) % 16, x % 16>>

\* one Error Estimate object of the document; error_ms is ErrorSeconds * 1000
ErrorEstimateDoc(info, raw) ==
    [synced |-> info.Synced, unavailable |-> info.Unavailable, scale |-> info.Scale,
     multiplier |-> info.Multiplier, error_seconds |-> info.ErrorSeconds,
     error_ms |-> [mant |-> info.ErrorSeconds.mant * 1000, exp |-> info.ErrorSeconds.exp],
     raw_value_hex |-> Hex4(raw)]

\* bothSynced := senderSynced && reflectorSynced, and the "sync_status" object
SyncStatus(a, sender) ==
    [sender_synced |-> sender,
     reflector_synced |-> a.reflectorSynced,
     both_synced |-> sender /\ a.reflectorSynced,
     sender_error_estimate |-> ErrorEstimateDoc(a.senderErrorInfo, a.senderErrorRaw),
     reflector_error_estimate |->
         ErrorEstimateDoc(a.reflectorErrorInfo, a.reflectorErrorRaw)]

\* no document has been written
NoSyncStatus == SyncStatus(ZeroAcc, FALSE)

\* spacing of the sender timestamps of successive probes
SendGap == 10

Shifts == {-4, 3}
DelaySamples == {<<5, 2>>, <<2, 5>>, <<4, 2>>}
TTLSamples == {<<0, 54>>, <<250, 0>>, <<250, 118>>, <<245, 200>>}
\* Error Estimate fields <<sender, reflector>> of a reflected packet: 0x8101 and
\* 0x8A40 are synchronized, 0x4000 has Z set; the other samples carry 0x0101
DefaultEE == 257
EESamples == {<<33025, 35392>>, <<257, 16384>>}

\* a probe record of the session transport: forward delay f, turnaround u and
\* reverse delay r as the two clocks saw them; a lost probe has no T4
Probe(k, f, u, r, sttl, rttl) ==
    [lost |-> FALSE, T1 |-> k * SendGap, T2 |-> k * SendGap + f,
     T3 |-> k * SendGap + f + u, T4 |-> k * SendGap + f + u + r,
     SenderTTL |-> sttl, ReceivedTTL |-> rttl,
     SenderErrorEstimate |-> DefaultEE, ErrorEstimate |-> DefaultEE]
LostProbe(k) ==
    [lost |-> TRUE, T1 |-> k * SendGap, T2 |-> 0, T3 |-> 0, T4 |-> 0,
     SenderTTL |-> 0, ReceivedTTL |-> 0,
     SenderErrorEstimate |-> 0, ErrorEstimate |-> 0]
ProbeSamples(k) ==
    {Probe(k, d[1], 1, d[2], 245, 54) : d \in DelaySamples}
        \cup {Probe(k, 4, 1, 2, t[1], t[2]) : t \in TTLSamples}
        \cup {[Probe(k, 4, 1, 2, 245, 54) EXCEPT !.SenderErrorEstimate = e[1],
                                                !.ErrorEstimate = e[2]] : e \in EESamples}
        \cup {LostProbe(k)}

\* the same probe seen with the reflector's clock c later
Shifted(p, c) == IF p.lost THEN p ELSE [p EXCEPT !.T2 = @ + c, !.T3 = @ + c]

NoLocals ==
    [valid |-> FALSE, T1 |-> 0, T2 |-> 0, T3 |-> 0, T4 |-> 0, rawFwd |-> 0,
     rawRev |-> 0, offset |-> 0, fwdCorr |-> 0, revCorr |-> 0, networkRtt |-> 0]

TwampRequests ==
    {r \in [malformed : BOOLEAN, ServerHost : ReqHosts, ServerPort : {0},
            Count : 0..MaxProbes, Padding : {0}] :
        r.malformed => r.ServerHost = "" /\ r.Count = 0}

InitTwamp ==
    /\ treq \in TwampRequests
    /\ tpc = "recv"
    /\ tresp = NoResp
    /\ nresults = 0
    /\ idx = 0
    /\ acc = ZeroAcc
    /\ accS = ZeroAcc
    /\ last = NoLocals
    /\ shift \in Shifts
    /\ fwdHopsSeen = <<>>
    /\ revHopsSeen = <<>>
    /\ validSeen = 0
    /\ frSeen = <<>>
    /\ accValid = ZeroAcc
    /\ clockSynced \in BOOLEAN
    /\ errorEstimate = 0
    /\ senderSynced = FALSE
    /\ clockReads = <<>>
    /\ syncStatus = NoSyncStatus

\* the TWAMP endpoint is not part of a specification
TwampOff ==
    /\ treq \in {r \in TwampRequests : r.malformed}
    /\ tpc = "off"
    /\ tresp = NoResp
    /\ nresults = 0
    /\ idx = 0
    /\ acc = ZeroAcc
    /\ accS = ZeroAcc
    /\ last = NoLocals
    /\ shift = 0
    /\ fwdHopsSeen = <<>>
    /\ revHopsSeen = <<>>
    /\ validSeen = 0
    /\ frSeen = <<>>
    /\ accValid = ZeroAcc
    /\ clockSynced = FALSE
    /\ errorEstimate = 0
    /\ senderSynced = FALSE
    /\ clockReads = <<>>
    /\ syncStatus = NoSyncStatus

clkVars == <<clockSynced, errorEstimate, senderSynced, clockReads>>

anVars == <<nresults, idx, acc, last, accS, fwdHopsSeen, revHopsSeen, validSeen, frSeen,
            accValid, syncStatus>>

\* twampClientRun: decode the body and apply the defaults
twampClientRun ==
    /\ tpc = "recv"
    /\ IF treq.malformed
       THEN /\ tresp' = httpError("invalid character", 400)
            /\ tpc' = "responded"
       ELSE /\ tpc' = "connect"
            /\ tresp' = tresp
    /\ UNCHANGED <<treq, shift>>
    /\ UNCHANGED anVars
    /\ UNCHANGED clkVars
    /\ UNCHANGED <<ivars, pvars, uvars>>

\* one call into the TWAMP library that either succeeds or makes the handler
\* answer 500 with the given message
LibraryCall(at, next, msg) ==
    /\ tpc = at
    /\ \E ok \in BOOLEAN :
         IF ok THEN /\ tpc' = next
                    /\ tresp' = tresp
         ELSE /\ tpc' = "responded"
              /\ tresp' = jsonResponse("error", msg, {}, 500)
    /\ UNCHANGED <<treq, shift>>
    /\ UNCHANGED <<ivars, pvars, uvars>>

\* what adjtimex answers for the host clock as it is now
HostClock(synced) == getNTPStatus(0, 0, ~synced, 1000)

\* one adjtimex query made at position at
ClockRead(at) == [at |-> at, Synced |-> HostClock(clockSynced).Synced]

TwampConnect ==
    /\ LibraryCall("connect", "session", "Connect failed")
    /\ UNCHANGED anVars
    /\ UNCHANGED clkVars

\* errorEstimate := calculateErrorEstimate(), then conn.CreateSession
TwampCreateSession ==
    /\ LibraryCall("session", "test", "Session failed")
    /\ errorEstimate' = calculateErrorEstimate("linux", HostClock(clockSynced))
    /\ clockReads' = Append(clockReads, ClockRead("session"))
    /\ UNCHANGED <<clockSynced, senderSynced>>
    /\ UNCHANGED anVars

TwampCreateTest ==
    /\ LibraryCall("test", "run", "Test creation failed")
    /\ UNCHANGED anVars
    /\ UNCHANGED clkVars

\* the synchronization state of the host clock changes while the session is
\* set up and the probes are sent
ClockChanges ==
    /\ tpc \in {"test", "run"}
    /\ clockSynced' = ~clockSynced
    /\ UNCHANGED <<treq, tpc, tresp, shift, errorEstimate, senderSynced, clockReads>>
    /\ UNCHANGED anVars
    /\ UNCHANGED <<ivars, pvars, uvars>>

\* test.RunMultiple(count, ...): at most one record per probe asked for; then
\* senderSynced := checkNTPSync()
TwampRunMultiple ==
    /\ LibraryCall("run", "analyze", "Test run failed")
    /\ IF tpc' = "analyze"
       THEN /\ nresults' \in 0..Min(IF treq.Count = 0 THEN 10 ELSE treq.Count, MaxProbes)
            /\ senderSynced' = checkNTPSync("linux", HostClock(clockSynced))
            /\ clockReads' = Append(clockReads, ClockRead("analyze"))
       ELSE /\ nresults' = nresults
            /\ UNCHANGED <<senderSynced, clockReads>>
    /\ UNCHANGED <<clockSynced, errorEstimate>>
    /\ UNCHANGED <<idx, acc, last, accS, fwdHopsSeen, revHopsSeen, validSeen, frSeen,
                   accValid, syncStatus>>

\* one iteration of for _, r := range results.Results
TwampAnalyze ==
    /\ tpc = "analyze"
    /\ idx < nresults
    /\ \E p \in ProbeSamples(idx) :
         /\ acc' = AnalyzeProbe(acc, p)
         /\ accS' = AnalyzeProbe(accS, Shifted(p, shift))
         /\ last' = Locals(p)
         /\ fwdHopsSeen' = IF ~p.lost /\ FwdHopsValid(p)
                           THEN Append(fwdHopsSeen, FwdHops(p)) ELSE fwdHopsSeen
         /\ revHopsSeen' = IF ~p.lost /\ RevHopsValid(p)
                           THEN Append(revHopsSeen, RevHops(p)) ELSE revHopsSeen
         /\ validSeen' = IF p.lost THEN validSeen ELSE validSeen + 1
         /\ frSeen' = IF p.lost THEN frSeen
                      ELSE Append(frSeen, <<idx, p.T2 - p.T1, p.T4 - p.T3,
                                            p.SenderErrorEstimate, p.ErrorEstimate>>)
         /\ accValid' = IF p.lost THEN accValid ELSE AnalyzeProbe(accValid, p)
    /\ idx' = idx + 1
    /\ UNCHANGED <<treq, tpc, tresp, nresults, shift, syncStatus>>
    /\ UNCHANGED clkVars
    /\ UNCHANGED <<ivars, pvars, uvars>>

TwampKeys ==
    {"server", "local_endpoint", "remote_endpoint", "probes", "loss_percent",
     "rtt_min_ms", "rtt_max_ms", "rtt_avg_ms", "rtt_stddev_ms", "rtt_raw_ms",
     "reflector_turnaround_ms", "estimated_clock_offset_ms", "sync_status",
     "forward_delay_raw_ms", "forward_delay_corrected_ms", "forward_ipdv_ms",
     "forward_jitter_ms", "reverse_delay_raw_ms", "reverse_delay_corrected_ms",
     "reverse_ipdv_ms", "reverse_jitter_ms", "hops"}

\* the loop is over: compute the averages and write the document
TwampRespond ==
    /\ tpc = "analyze"
    /\ idx = nresults
    /\ tresp' = jsonResponse("ok", "", TwampKeys, 200)
    /\ syncStatus' = SyncStatus(acc, senderSynced)
    /\ tpc' = "responded"
    /\ UNCHANGED <<treq, shift>>
    /\ UNCHANGED <<nresults, idx, acc, last, accS, fwdHopsSeen, revHopsSeen, validSeen,
                   frSeen, accValid>>
    /\ UNCHANGED clkVars
    /\ UNCHANGED <<ivars, pvars, uvars>>

NextTwamp ==
    \/ twampClientRun
    \/ TwampConnect
    \/ TwampCreateSession
    \/ TwampCreateTest
    \/ TwampRunMultiple
    \/ TwampAnalyze
    \/ TwampRespond
    \/ ClockChanges

---------------------------------------------------------------------------
(* Claims about the TWAMP analyzer *)

\* C6: for every valid probe, F + R = N = (T4 - T1) - (T3 - T2), and the
\* corrected delays F' = F - O and R' = R + O are both exactly N / 2, also when
\* F - R is odd or negative.
C6_CorrectedDelaysExact ==
    last.valid =>
        /\ last.rawFwd + last.rawRev = last.networkRtt
        /\ last.networkRtt = (last.T4 - last.T1) - (last.T3 - last.T2)
        /\ last.fwdCorr = last.revCorr
        /\ 2 * last.fwdCorr = last.networkRtt

\* C7: adding a constant c to every T2 and T3 leaves the forward and reverse
\* IPDV statistics (min, max, avg, mean_abs), both RFC 3550 jitter values and
\* the network-RTT statistics (min, max, avg, stddev) unchanged.
C7_OffsetInvariance ==
    /\ Report(accS).forward_ipdv = Report(acc).forward_ipdv
    /\ Report(accS).reverse_ipdv = Report(acc).reverse_ipdv
    /\ Report(accS).forward_jitter = Report(acc).forward_jitter
    /\ Report(accS).reverse_jitter = Report(acc).reverse_jitter
    /\ Report(accS).rtt = Report(acc).rtt

C7_Witness ==
    /\ tpc = "responded"
    /\ acc.ipdvCount >= 2
    /\ shift # 0
    /\ Report(acc).forward_ipdv.min < 0
    /\ Report(acc).forward_ipdv.max > 0
    /\ Report(acc).forward_jitter.num > 0
    /\ Report(acc).rtt.stddev > 0
    /\ Report(accS).forward_delay_raw # Report(acc).forward_delay_raw

ZeroStats3 == [min |-> 0, max |-> 0, avg |-> 0]
ZeroStats4 == [min |-> 0, max |-> 0, avg |-> 0, mean_abs |-> 0]

\* the metric fields of the document built from accumulators a are all zero
ZeroReport(a) ==
    /\ Report(a).rtt = [min |-> 0, max |-> 0, avg |-> 0, stddev |-> 0]
    /\ Report(a).forward_ipdv = ZeroStats4
    /\ Report(a).reverse_ipdv = ZeroStats4
    /\ Report(a).forward_jitter.num = 0
    /\ Report(a).reverse_jitter.num = 0
    /\ Report(a).forward_delay_raw = ZeroStats3
    /\ Report(a).reverse_delay_raw = ZeroStats3
    /\ Report(a).forward_delay_corrected = ZeroStats3
    /\ Report(a).reverse_delay_corrected = ZeroStats3
    /\ Report(a).reflector_turnaround = ZeroStats3
    /\ Report(a).estimated_clock_offset = 0
    /\ Report(a).hops_forward = [min |-> 0, max |-> 0, avgNum |-> 0, avgDen |-> 1]
    /\ Report(a).hops_reverse = [min |-> 0, max |-> 0, avgNum |-> 0, avgDen |-> 1]

\* C19: when a TWAMP run yields zero valid probes (every record lost, or no
\* records), the analyzer still returns a success document, performs no
\* division by zero, and every IPDV, jitter, network-RTT, delay, turnaround,
\* offset and hop field (min, max, avg, stddev, mean_abs) is 0.
C19_NoValidProbes ==
    [][(tpc = "analyze" /\ idx = nresults /\ validSeen = 0)
        => (/\ tresp' = jsonResponse("ok", "", TwampKeys, 200)
            /\ tpc' = "responded"
            /\ ZeroReport(acc'))]_vars

\* every record of the run was lost
C19_Witness ==
    /\ tpc = "responded"
    /\ tresp.status = "ok"
    /\ nresults >= 2
    /\ idx = nresults
    /\ validSeen = 0
    /\ acc.validCount = 0
    /\ ~last.valid
    /\ last.T1 > 0

RECURSIVE SeqSum(_)
SeqSum(q) == IF q = <<>> THEN 0 ELSE Head(q) + SeqSum(Tail(q))
SeqMin(q) == CHOOSE x \in {q[i] : i \in DOMAIN q} : \A i \in DOMAIN q : x <= q[i]
SeqMax(q) == CHOOSE x \in {q[i] : i \in DOMAIN q} : \A i \in DOMAIN q : x >= q[i]

HopStatsOver(h, seen) ==
    seen # <<>> =>
        /\ h.min = SeqMin(seen)
        /\ h.max = SeqMax(seen)
        /\ h.avgNum * Len(seen) = SeqSum(seen) * h.avgDen

\* C8: per direction, the reported hop min, max and avg are those of exactly
\* the valid probes whose TTL yielded a hop value; a probe whose TTL was skipped
\* touches neither min, max nor the divisor of the mean, wherever it occurs.
C8_HopStatsOverYieldingProbes ==
    /\ HopStatsOver(Report(acc).hops_forward, fwdHopsSeen)
    /\ HopStatsOver(Report(acc).hops_reverse, revHopsSeen)

---------------------------------------------------------------------------
(* Single functions, each called on its own arguments *)

NoRet == [fn |-> "none"]

\* the functions are not part of a specification
UnitsOff ==
    /\ call = [fn |-> "none"]
    /\ ret = NoRet
    /\ upc = "off"

\* arguments of NewIperf3Client
CtorProtocols == {"", "tcp", "TCP", "Tcp", "udp", "UDP", "Udp"}
CtorMbps == {-10, 0, 1, 50, 100, 1000}
CtorCalls ==
    [fn : {"NewIperf3Client"}, parallel : -1..(MaxParallel + 1),
     protocol : CtorProtocols, reverse : BOOLEAN, bandwidthMbps : CtorMbps]

CallNewIperf3Client ==
    /\ upc = "call"
    /\ call.fn = "NewIperf3Client"
    /\ ret' = NewIperf3Client("h", 5201, 10, call.parallel, call.protocol,
                              call.reverse, call.bandwidthMbps)
    /\ upc' = "returned"
    /\ UNCHANGED call
    /\ UNCHANGED <<ivars, pvars, tvars>>

\* C13: for every argument combination the constructor returns Parallel >= 1
\* (inputs below 1 become 1, others unchanged), Bandwidth > 0 (inputs <= 0
\* Mbit/s become 100,000,000 bit/s, others Mbit/s * 10^6), the protocol
\* normalised case-insensitively to upper case with the empty string yielding
\* TCP, and BlockSize = 1460 for UDP and 131072 otherwise.
C13_ConstructorNormalises ==
    (call.fn = "NewIperf3Client" /\ upc = "returned") =>
        /\ ret.Parallel >= 1
        /\ ret.Parallel = (IF call.parallel < 1 THEN 1 ELSE call.parallel)
        /\ ret.Bandwidth > 0
        /\ ret.Bandwidth = (IF call.bandwidthMbps <= 0 THEN 100000000
                            ELSE call.bandwidthMbps * 1000000)
        /\ ret.Protocol = (IF call.protocol \in {"udp", "UDP", "Udp"}
                           THEN "UDP" ELSE "TCP")
        /\ ret.BlockSize = (IF ret.Protocol = "UDP" THEN 1460 ELSE 131072)

\* random sources: every single byte value repeated, and pairs of edge values
RandEdges == {0, 25, 26, 31, 32, 127, 128, 255}
CookieCalls ==
    [fn : {"generateCookie"},
     rnd : {<<b>> : b \in 0..255} \cup {<<a, b>> : a \in RandEdges, b \in RandEdges}]

CallGenerateCookie ==
    /\ upc = "call"
    /\ call.fn = "generateCookie"
    /\ ret' = [fn |-> "generateCookie", cookie |-> generateCookie(call.rnd)]
    /\ upc' = "returned"
    /\ UNCHANGED call
    /\ UNCHANGED <<ivars, pvars, tvars>>

\* the 32 characters a-z and 2-7
Base32Alphabet == (97..122) \cup (50..55)

\* C14: every cookie produced by generateCookie, for every sequence of random
\* bytes, is exactly 37 bytes long, has 0x00 as its last byte, and each of its
\* first 36 bytes is a character of "abcdefghijklmnopqrstuvwxyz234567".
C14_CookieShape ==
    (call.fn = "generateCookie" /\ upc = "returned") =>
        /\ Len(ret.cookie) = 37
        /\ ret.cookie[37] = 0
        /\ \A i \in 1..36 : ret.cookie[i] \in Base32Alphabet

C14_Witness ==
    /\ call.fn = "generateCookie"
    /\ upc = "returned"
    /\ call.rnd = <<255, 26>>
    /\ ret.cookie[1] = 55
    /\ ret.cookie[2] = 50
    /\ ret.cookie[36] = 50

\* the largest JSON payload readJSON accepts: 1024*1024
MaxJSONLength == 1048576

\* binary.BigEndian.PutUint32 / Uint32 on a 4-byte prefix
PutUint32(n) == <<n \div 16777216, (n \div 65536) % 256, (n \div 256) % 256, n % 256>>
Uint32(b) == ((b[1] * 256 + b[2]) * 256 + b[3]) * 256 + b[4]

\* io.ReadFull(conn, buf) with len(buf) = n on a stream holding avail bytes
ReadFull(avail, n) == [n |-> Min(avail, n), ok |-> avail >= n]

\* (mutant: the prefix is trusted, no bound on the length)
readJSONUnbounded(hdrOk, hdr, avail, valid) ==
    IF ~hdrOk THEN [fn |-> "readJSON", err |-> "read length", allocated |-> 0, consumed |-> 0]
    ELSE LET rf == ReadFull(avail, Uint32(hdr))
         IN [fn |-> "readJSON",
             err |-> IF ~rf.ok THEN "read JSON" ELSE IF valid THEN "" ELSE "unmarshal",
             allocated |-> Uint32(hdr), consumed |-> rf.n]
\* readJSON: hdrOk = the 4 prefix bytes arrived, avail = payload bytes that
\* follow, valid = the payload parses; allocated = len(jsonBuf)
readJSON(hdrOk, hdr, avail, valid) ==
    IF ~hdrOk THEN [fn |-> "readJSON", err |-> "read length", allocated |-> 0, consumed |-> 0]
    ELSE LET length == Uint32(hdr) IN
         IF length = 0 \/ length > MaxJSONLength
         THEN [fn |-> "readJSON", err |-> "invalid JSON length", allocated |-> 0,
               consumed |-> 0]
         ELSE LET rf == ReadFull(avail, length)
              IN [fn |-> "readJSON",
                  err |-> IF ~rf.ok THEN "read JSON" ELSE IF valid THEN "" ELSE "unmarshal",
                  allocated |-> length, consumed |-> rf.n]

\* lengths the peer announces, and how much payload it then sends
FrameLengths == {0, 1, 2, 255, 256, 65535, 65536, 1048575, 1048576, 1048577,
                 16777216, 2147483000}
PayloadSent(length, kind) ==
    CASE kind = "none" -> 0
      [] kind = "short" -> IF length > 0 THEN length - 1 ELSE 0
      [] kind = "exact" -> length
      [] kind = "more" -> length + 3
ReadJSONCalls ==
    [fn : {"readJSON"}, length : FrameLengths, hdrOk : BOOLEAN,
     sent : {"none", "short", "exact", "more"}, valid : BOOLEAN]

CallReadJSON ==
    /\ upc = "call"
    /\ call.fn = "readJSON"
    /\ ret' = readJSON(call.hdrOk, PutUint32(call.length),
                       PayloadSent(call.length, call.sent), call.valid)
    /\ upc' = "returned"
    /\ UNCHANGED call
    /\ UNCHANGED <<ivars, pvars, tvars>>

\* C15: readJSON returns an error, without reading or allocating any payload,
\* whenever the 4-byte big-endian length prefix it received is 0 or greater
\* than 1,048,576; for every length in 1..1,048,576 it reads exactly that many
\* payload bytes.
C15_LengthBounded ==
    (call.fn = "readJSON" /\ upc = "returned" /\ call.hdrOk) =>
        /\ (call.length = 0 \/ call.length > 1048576) =>
              ret.err # "" /\ ret.allocated = 0 /\ ret.consumed = 0
        /\ call.length \in 1..1048576 =>
              /\ ret.allocated = call.length
              /\ ret.consumed <= call.length
              /\ PayloadSent(call.length, call.sent) >= call.length =>
                    ret.consumed = call.length

C15_Witness ==
    /\ call.fn = "readJSON"
    /\ upc = "returned"
    /\ call.hdrOk
    /\ call.length = 1048576
    /\ call.sent = "more"
    /\ ret.consumed = 1048576
    /\ ret.err = ""

\* every 16-bit value, by its fields
ParseCalls ==
    [fn : {"parseErrorEstimate"}, s : BOOLEAN, z : BOOLEAN, scale : 0..63,
     multiplier : 0..255]

CallParseErrorEstimate ==
    /\ upc = "call"
    /\ call.fn = "parseErrorEstimate"
    /\ ret' = parseErrorEstimate(
                  ErrorEstimateField(call.s, call.z, call.scale, call.multiplier))
    /\ upc' = "returned"
    /\ UNCHANGED call
    /\ UNCHANGED <<ivars, pvars, tvars>>

\* C16: for every 16-bit value x, parseErrorEstimate(x) returns Synced = bit 15
\* of x, Unavailable = bit 14, Scale = bits 8..13, Multiplier = bits 0..7, and
\* ErrorSeconds = -1 exactly when Unavailable is set or Multiplier = 0,
\* otherwise Multiplier * 2^(-Scale).
C16_ParseErrorEstimate ==
    (call.fn = "parseErrorEstimate" /\ upc = "returned") =>
        /\ ret.Synced = call.s
        /\ ret.Unavailable = call.z
        /\ ret.Scale = call.scale
        /\ ret.Multiplier = call.multiplier
        /\ (ret.ErrorSeconds = Unavailable) <=> (call.z \/ call.multiplier = 0)
        /\ ~(call.z \/ call.multiplier = 0) =>
              ret.ErrorSeconds = [mant |-> call.multiplier, exp |-> -call.scale]

\* 0x8A01: synced, scale 10, multiplier 1
C16_Witness ==
    /\ call.fn = "parseErrorEstimate"
    /\ upc = "returned"
    /\ ErrorEstimateField(call.s, call.z, call.scale, call.multiplier) = 35329
    /\ ret.Synced /\ ~ret.Unavailable
    /\ ret.Scale = 10 /\ ret.Multiplier = 1
    /\ ret.ErrorSeconds = [mant |-> 1, exp |-> -10]

EsterrorSamples ==
    {-1, 0, 1, 2, 3, 7, 100, 1000, 300000, 500000, 1000000, 1400000, 1500000,
     2000000, 100000000, 200000000}
ClockCalls ==
    {c \in [fn : {"calculateErrorEstimate"}, build : {"linux", "other"},
             errno : {0, 1}, status : {0, timeError}, unsync : BOOLEAN,
             esterror : EsterrorSamples] :
        c.build = "other" => c.errno = 0 /\ c.status = 0 /\ ~c.unsync /\ c.esterror = 0}

\* the clock-quality probe and the Error Estimate built from it
CallCalculateErrorEstimate ==
    /\ upc = "call"
    /\ call.fn = "calculateErrorEstimate"
    /\ LET st == getNTPStatus(call.errno, call.status, call.unsync, call.esterror)
       IN ret' = [fn |-> "calculateErrorEstimate", status |-> st,
                  synced |-> checkNTPSync(call.build, st),
                  ee |-> calculateErrorEstimate(call.build, st)]
    /\ upc' = "returned"
    /\ UNCHANGED call
    /\ UNCHANGED <<ivars, pvars, tvars>>

\* C17: for every error value t in [10^-6, 100] seconds, decoding the Error
\* Estimate that the encoder produces for a synchronized clock with error t
\* yields errorSeconds within [t * (1 - 2^-8), t * (1 + 2^-8)]
\* (t = esterror / 10^6; the decoded value is Multiplier / 2^Scale).
C17_EncodeDecodePrecision ==
    (/\ call.fn = "calculateErrorEstimate" /\ upc = "returned"
     /\ call.build = "linux" /\ call.errno = 0
     /\ call.status # timeError /\ ~call.unsync
     /\ call.esterror \in 1..100000000) =>
        LET d == parseErrorEstimate(ret.ee)
            t == call.esterror * Pow2(d.Scale)
        IN /\ d.Synced
           /\ d.ErrorSeconds # Unavailable
           /\ 256 * Abs(d.Multiplier * 1000000 - t) <= t

\* the platform cannot answer
CannotAnswer == call.build = "other" \/ call.errno # 0 \/ call.esterror <= 0

\* C18: the clock-quality probe always returns a non-negative estimated error,
\* and whenever the platform cannot answer (non-Linux build, adjtimex failing,
\* or no estimated error available) it reports the clock as not synchronized
\* with an estimated error of 0.5 s, so that the Error Estimate built from it
\* has S = 0 and decodes to 0.5 s.
C18_ProbeFallback ==
    (call.fn = "calculateErrorEstimate" /\ upc = "returned") =>
        /\ call.build = "linux" => ret.status.ErrorMicros >= 0
        /\ CannotAnswer =>
              /\ ~ret.synced
              /\ call.build = "linux" => ret.status.ErrorMicros = 500000
              /\ ~parseErrorEstimate(ret.ee).Synced
              /\ parseErrorEstimate(ret.ee).ErrorSeconds = [mant |-> 1, exp |-> -1]

\* the TTLs of one probe record: the Sender TTL the reflector echoes (0 when it
\* could not read it; the guard allows for more than one octet) and the TTL the
\* reply arrived with (an octet of the IP header, not positive when unknown)
SenderTTLs == 0..256
ReceivedTTLs == -1..255
HopCalls ==
    [fn : {"hops"}, SenderTTL : SenderTTLs, ReceivedTTL : {54}]
        \cup [fn : {"hops"}, SenderTTL : {245}, ReceivedTTL : ReceivedTTLs]

\* the hop computation of the loop body on one record; -1 stands for a branch
\* that was not entered
CallHops ==
    /\ upc = "call"
    /\ call.fn = "hops"
    /\ ret' = [fn |-> "hops",
               fwdHops |-> IF FwdHopsValid(call) THEN FwdHops(call) ELSE -1,
               revHops |-> IF RevHopsValid(call) THEN RevHops(call) ELSE -1]
    /\ upc' = "returned"
    /\ UNCHANGED call
    /\ UNCHANGED <<ivars, pvars, tvars>>

\* C24: a forward hop value is produced iff senderTTL is in 1..255 and it then
\* equals 255 - senderTTL (245 gives 10, 255 gives 0, 1 gives 254); senderTTL = 0
\* or above 255 produces no forward hop value.
C24_ForwardHops ==
    (call.fn = "hops" /\ upc = "returned") =>
        /\ (ret.fwdHops # -1) <=> (call.SenderTTL \in 1..255)
        /\ call.SenderTTL \in 1..255 => ret.fwdHops = 255 - call.SenderTTL
        /\ call.SenderTTL = 245 => ret.fwdHops = 10
        /\ call.SenderTTL = 255 => ret.fwdHops = 0
        /\ call.SenderTTL = 1 => ret.fwdHops = 254

C24_Witness ==
    /\ call.fn = "hops" /\ upc = "returned"
    /\ call.SenderTTL = 1
    /\ ret.fwdHops = 254

\* the smallest member of {64, 128, 255} that is >= ttl
SmallestInitialTTL(ttl) ==
    CHOOSE m \in {64, 128, 255} :
        m >= ttl /\ \A k \in {64, 128, 255} : k >= ttl => m <= k

\* C25: with receivedTTL > 0 the reverse hop value is initialTTL - receivedTTL,
\* initialTTL being the smallest member of {64, 128, 255} that is >= receivedTTL
\* (64 gives 0, 65 gives 63, 128 gives 0, 129 gives 126; never negative);
\* receivedTTL <= 0 produces no reverse hop value.
C25_ReverseHops ==
    (call.fn = "hops" /\ upc = "returned") =>
        /\ call.ReceivedTTL > 0 =>
              /\ ret.revHops = SmallestInitialTTL(call.ReceivedTTL) - call.ReceivedTTL
              /\ ret.revHops >= 0
        /\ call.ReceivedTTL <= 0 => ret.revHops = -1
        /\ call.ReceivedTTL = 64 => ret.revHops = 0
        /\ call.ReceivedTTL = 65 => ret.revHops = 63
        /\ call.ReceivedTTL = 128 => ret.revHops = 0
        /\ call.ReceivedTTL = 129 => ret.revHops = 126

C25_Witness ==
    /\ call.fn = "hops" /\ upc = "returned"
    /\ call.ReceivedTTL = 129
    /\ ret.revHops = 126

\* errorSeconds after the clamp to [1e-6, 100] s, in microseconds
Clamped(micros) ==
    IF micros < 1 THEN 1 ELSE IF micros > 100000000 THEN 100000000 ELSE micros

\* math.Round of a number of millionths: to the nearest integer, halves away
\* from zero
RoundMicros(x) == (2 * x + 1000000) \div 2000000

\* a call of the Linux encoder that has returned
EncoderReturned ==
    call.fn = "calculateErrorEstimate" /\ upc = "returned" /\ call.build = "linux"

RECURSIVE JitterLoop(_, _, _)
JitterLoop(num, n, q) ==
    IF q = <<>> THEN [num |-> num, den |-> Pow16(n)]
    ELSE JitterLoop(JitterUpd(num, n, Head(q)), n + 1, Tail(q))

\* calculateRFC3550Jitter
calculateRFC3550Jitter(ipdv) ==
    IF Len(ipdv) = 0 THEN [num |-> 0, den |-> 1] ELSE JitterLoop(0, 0, ipdv)

\* IPDV samples (ns) and the sequences of them a call is made on
IPDVSamples == {-3, 0, 2, 16}
JitterCalls ==
    [fn : {"calculateRFC3550Jitter"},
     ipdv : UNION {[1..n -> IPDVSamples] : n \in 0..MaxSamples}]

CallRFC3550Jitter ==
    /\ upc = "call"
    /\ call.fn = "calculateRFC3550Jitter"
    /\ ret' = [fn |-> "calculateRFC3550Jitter", J |-> calculateRFC3550Jitter(call.ipdv)]
    /\ upc' = "returned"
    /\ UNCHANGED call
    /\ UNCHANGED <<ivars, pvars, tvars>>

RECURSIVE Pow15(_)
Pow15(n) == IF n = 0 THEN 1 ELSE 15 * Pow15(n - 1)

MaxAbs(q) == IF q = <<>> THEN 0 ELSE SeqMax([i \in DOMAIN q |-> Abs(q[i])])

\* C35: for any IPDV sample sequence, the RFC 3550 estimator started at 0 and
\* updated as J <- J + (|ipdv| - J)/16 satisfies 0 <= J <= max |ipdv| after
\* every sample (every prefix of a sequence is a sequence called on), is 0 for
\* an empty sequence, and after a sample of magnitude s followed only by k zero
\* samples is (s/16) * (15/16)^k = s * 15^k / 16^(k+1).
C35_JitterBoundedAndDecays ==
    (call.fn = "calculateRFC3550Jitter" /\ upc = "returned") =>
        LET q == call.ipdv
            J == ret.J
        IN /\ J.den = Pow16(Len(q))
           /\ 0 <= J.num /\ J.num <= MaxAbs(q) * J.den
           /\ q = <<>> => J.num = 0
           /\ (Len(q) >= 1 /\ \A i \in 2..Len(q) : q[i] = 0) =>
                J.num = Abs(q[1]) * Pow15(Len(q) - 1)

\* 16 ns followed by two zero samples: J = 16/16 * (15/16)^2 = 225/256
C35_Witness ==
    /\ call.fn = "calculateRFC3550Jitter"
    /\ upc = "returned"
    /\ call.ipdv = <<16, 0, 0>>
    /\ ret.J.num * 256 = 225 * ret.J.den

\* the calls a behaviour may start with
UnitCalls ==
    CtorCalls \cup CookieCalls \cup ReadJSONCalls \cup ParseCalls \cup ClockCalls
        \cup HopCalls \cup JitterCalls

InitUnits ==
    /\ call \in UnitCalls
    /\ ret = NoRet
    /\ upc = "call"

NextUnits ==
    \/ CallNewIperf3Client
    \/ CallGenerateCookie
    \/ CallReadJSON
    \/ CallParseErrorEstimate
    \/ CallCalculateErrorEstimate
    \/ CallHops
    \/ CallRFC3550Jitter

---------------------------------------------------------------------------
(* Specifications *)

Init == InitIperf /\ PacingOff /\ TwampOff /\ UnitsOff

\* the iperf3 endpoint serving one request
Spec == Init /\ [][Next]_vars

InitP == IperfOff /\ InitPacing /\ TwampOff /\ UnitsOff

\* one paced send worker
SpecPacing == InitP /\ [][NextPacing]_vars

InitT == IperfOff /\ PacingOff /\ InitTwamp /\ UnitsOff

\* the TWAMP endpoint serving one request
SpecTwamp == InitT /\ [][NextTwamp]_vars

InitU == IperfOff /\ PacingOff /\ TwampOff /\ InitUnits

\* one call of one function
SpecUnits == InitU /\ [][NextUnits]_vars

---------------------------------------------------------------------------
(* Claims about I/O failures on the data streams *)

\* the workers whose Write / Read returned an error
FailedWorkers == {i \in Workers : ioFailed[i] >= 0}

RECURSIVE SumFailed(_)
SumFailed(S) ==
    IF S = {} THEN 0
    ELSE LET i == CHOOSE x \in S : TRUE IN ioFailed[i] + SumFailed(S \ {i})

\* the byte count RunTest reports
ReportedBytes == IF client.Reverse THEN res.ReceivedBytes ELSE res.SentBytes

\* the step in which the I/O call of worker i fails
IOFails(i) == wpc[i] = "io" /\ ioFailed[i] < 0 /\ ioFailed'[i] >= 0

\* C21: a failed write (or read) on one data stream stops only that stream's
\* worker: the step changes no other worker and leaves the session running;
\* the failed worker keeps the bytes of its successful operations, the session
\* goes on to TEST_END without an error, and the reported total includes
\* those bytes.
C21_StreamFailureIsolated ==
    /\ [](\A i \in FailedWorkers :
            /\ err = NoErr /\ result # "error"
            /\ pc \in {"Running", "TestEnd", "ExchangeResults", "Done"}
            /\ pc = "Running" =>
                 /\ streamBytes[i] = ioFailed[i]
                 /\ wpc[i] \in {"lock", "load", "store", "unlock", "done"}
            /\ pc # "Running" => ReportedBytes >= SumFailed(FailedWorkers))
    /\ [][\A i \in Workers : IOFails(i) =>
            /\ pc' = "Running" /\ expired' = expired
            /\ \A j \in Workers \ {i} :
                 /\ wpc'[j] = wpc[j]
                 /\ streamBytes'[j] = streamBytes[j]
                 /\ ioFailed'[j] = ioFailed[j]]_vars

\* worker 1 failed before the deadline after a successful operation, worker 2
\* went on to transfer more, and the request was answered with success
C21_Witness ==
    /\ hpc = "responded" /\ resp.status = "ok"
    /\ Len(streams) >= 2
    /\ ioFailed[1] > 0
    /\ ioFailed[2] < 0
    /\ ReportedBytes > ioFailed[1]

---------------------------------------------------------------------------
(* Claims about the error messages *)

\* whether the text the client formats for the error names the target
\* "host:port": only Connect's "connect to %s failed: %w" has the target among
\* its arguments ("unexpected state %d, expected ...(%d)", "server error" and
\* "server denied access" are complete texts; the others wrap the cause
\* returned by the read or write, which is io.EOF for a short read)
ErrorNamesTarget(e) == e.kind = "connect failed"

\* the failures of the data connections
StreamErrors == {"create stream", "send cookie on stream"}

\* C22: every control-channel failure of an iperf3 request (connection
\* refused, a short or failed read of a state byte or framed JSON, an
\* unexpected state byte) makes the request fail with an error message that
\* contains the target host:port.
C22_ControlErrorsNameTarget ==
    (hpc = "responded" /\ result = "error" /\ err.kind \notin StreamErrors) =>
        ErrorNamesTarget(err)

---------------------------------------------------------------------------
(* Claims about delay variation *)

Range(q) == {q[i] : i \in DOMAIN q}

\* C23: when at least 2 probes were not lost and all of them have the same
\* (F, R), the forward and reverse IPDV min, max, avg and mean_abs are all 0
\* and both RFC 3550 jitter outputs are 0.
C23_ConstantDelayZeroJitter ==
    (validSeen >= 2 /\ Cardinality({<<e[2], e[3]>> : e \in Range(frSeen)}) = 1) =>
        /\ Report(acc).forward_ipdv = ZeroStats4
        /\ Report(acc).reverse_ipdv = ZeroStats4
        /\ Report(acc).forward_jitter.num = 0
        /\ Report(acc).reverse_jitter.num = 0

\* a run answered after three records with the same non-zero delays
C23_Witness ==
    /\ tpc = "responded"
    /\ tresp.status = "ok"
    /\ validSeen = 3
    /\ {<<e[2], e[3]>> : e \in Range(frSeen)} = {<<4, 2>>}
    /\ acc.ipdvCount = 2

---------------------------------------------------------------------------
(* Claims about the pacing sleep *)

\* C26: after a successful write in send mode, a worker whose streamBytes
\* exceeds targetBytesPerSecond * elapsed sleeps for
\* min((streamBytes - expectedBytes) / targetBytesPerSecond, 100 ms) before its
\* next write: 100 ms, not nothing, when the computed pause is 100 ms or more.
C26_SleepCapped ==
    [][(ppc = "pace" /\ Excess(pcfg, pbytes, pnow) > 0) =>
          pnow' - pnow = Min(SleepMs(pcfg, pbytes, pnow), 100)]_vars

---------------------------------------------------------------------------
(* The data plane under fair scheduling *)

\* the I/O call returns: with bytes, or with the timeout of the deadline set
\* on the connection; a call that can do neither blocks
IOReturns(i) == WorkerIO(i) /\ (expired \/ streamBytes'[i] # streamBytes[i])

\* a goroutine that can take a step takes one
WorkerRuns(i) ==
    \/ WorkerCheck(i)
    \/ IOReturns(i)
    \/ WorkerLock(i)
    \/ WorkerLoad(i)
    \/ WorkerStore(i)
    \/ WorkerUnlock(i)

\* time advances, the loop that starts the goroutines runs on, and every
\* goroutine is scheduled
Fairness ==
    /\ WF_vars(Tick)
    /\ WF_vars(Spawn)
    /\ \A i \in Workers : WF_vars(WorkerRuns(i))

\* the requests under fair scheduling: send mode with any number of streams,
\* receive mode with the parallel field left out
FairRequests == {r \in Requests : r.Protocol = "" /\ (r.Reverse => r.Parallel = 0)}

InitFair == InitIperf /\ req \in FairRequests /\ PacingOff /\ TwampOff /\ UnitsOff

SpecFair == InitFair /\ [][Next]_vars /\ Fairness

\* positions of a worker that has left its loop
AfterLoop == {"lock", "load", "store", "unlock", "done"}

\* C27: once the data plane has started, every worker eventually exits and
\* sendData / receiveData returns (wg.Wait returns); a worker that has seen
\* now >= D at its loop head leaves the loop, and a worker that has left the
\* loop starts no further I/O and no pacing sleep; each pacing sleep is shorter
\* than 100 ms.
C27_WorkersTerminate ==
    /\ (pc = "Running") ~> WaitReturns(spawned, wg)
    /\ [](\A i \in Workers : sleepTime[i] < 100)
    /\ [][\A i \in Workers :
            /\ (wpc[i] = "check" /\ expired /\ wpc'[i] # wpc[i]) => wpc'[i] \in AfterLoop
            /\ wpc[i] \in AfterLoop =>
                 /\ wpc'[i] \in AfterLoop
                 /\ ioCount'[i] <= ioCount[i]
                 /\ sleepTime'[i] = 0]_vars

\* both workers have exited and wg.Wait returns: worker 1 after a write, a
\* pacing sleep and the deadline seen at its loop head, worker 2 on the timeout
\* of its blocked write
C27_Witness ==
    /\ pc = "Running"
    /\ WaitReturns(spawned, wg)
    /\ expired
    /\ Len(streams) >= 2
    /\ ~client.Reverse
    /\ wpc[1] = "done" /\ streamBytes[1] > 0 /\ ioFailed[1] < 0
    /\ wpc[2] = "done" /\ ioFailed[2] >= 0

---------------------------------------------------------------------------
(* Claims about lost probes *)

\* the differences of component c between consecutive entries of q
Diffs(q, c) == [k \in 1..(Len(q) - 1) |-> q[k + 1][c] - q[k][c]]
AbsSeq(q) == [k \in DOMAIN q |-> Abs(q[k])]

\* the IPDV accumulators of one direction are those of the sample sequence d
IPDVOver(min, max, total, absTotal, d) ==
    /\ total = SeqSum(d)
    /\ absTotal = SeqSum(AbsSeq(d))
    /\ d # <<>> => min = SeqMin(d) /\ max = SeqMax(d)

\* C28: lost probes contribute to no accumulator: each IPDV sample is the
\* difference between the raw delay of a valid probe and that of the nearest
\* valid probe before it, lost probes in between being skipped, so v >= 1
\* valid probes yield exactly v - 1 IPDV samples per direction, and the input
\* with its lost records removed gives the same accumulators, hence the same
\* statistics.
C28_LostProbesIgnored ==
    /\ acc = accValid
    /\ Report(acc) = Report(accValid)
    /\ acc.validCount = validSeen
    /\ validSeen >= 1 => acc.ipdvCount = validSeen - 1
    /\ IPDVOver(acc.fwdIPDVMin, acc.fwdIPDVMax, acc.fwdIPDVTotal, acc.fwdIPDVAbsTotal,
                Diffs(frSeen, 2))
    /\ IPDVOver(acc.revIPDVMin, acc.revIPDVMax, acc.revIPDVTotal, acc.revIPDVAbsTotal,
                Diffs(frSeen, 3))

\* three records, the middle one lost, the other two with different delays
C28_Witness ==
    /\ tpc = "responded"
    /\ idx = 3
    /\ Len(frSeen) = 2
    /\ frSeen[1][1] = 0 /\ frSeen[2][1] = 2
    /\ frSeen[1][2] # frSeen[2][2]
    /\ acc.ipdvCount = 1
    /\ acc.fwdIPDVTotal = frSeen[2][2] - frSeen[1][2]

---------------------------------------------------------------------------
(* Claims about the sender's synchronization status *)

\* C30: the sender_synced value a TWAMP request reports is the synchronized
\* flag of one clock-quality query, made at the start of the request before
\* any probe is sent; a change of the clock's state during the probe run does
\* not alter it, and it agrees with the clock state the advertised Error
\* Estimate was built from.
C30_SyncQueriedOnceAtStart ==
    (tpc = "responded" /\ tresp.status = "ok") =>
        /\ Len(clockReads) = 1
        /\ clockReads[1].at = "session"
        /\ senderSynced = clockReads[1].Synced
        /\ senderSynced = parseErrorEstimate(errorEstimate).Synced

---------------------------------------------------------------------------
(* Claims about the Error Estimate objects of the TWAMP document *)

\* the fields of a 16-bit Error Estimate, read off its value
EEBitS(raw) == raw >= 32768
EEBitZ(raw) == (raw \div 16384) % 2 = 1
EEScale(raw) == (raw \div 256) % 64
EEMultiplier(raw) == raw % 256

\* the object the document must hold for the field raw
DecodedAs(doc, raw) ==
    /\ doc.synced = EEBitS(raw)
    /\ doc.unavailable = EEBitZ(raw)
    /\ doc.scale = EEScale(raw)
    /\ doc.multiplier = EEMultiplier(raw)
    /\ doc.error_seconds = IF EEBitZ(raw) \/ EEMultiplier(raw) = 0 THEN Unavailable
                           ELSE [mant |-> EEMultiplier(raw), exp |-> -EEScale(raw)]
    /\ doc.raw_value_hex = Hex4(raw)

\* C31: the sender and reflector Error Estimate objects of a TWAMP result are the
\* decodings of the two fields of the first probe that was not lost, in sequence
\* order; later probes never overwrite them; reflector_synced is the S bit of
\* that reflector field and both_synced = sender_synced AND reflector_synced.
C31_ErrorEstimatesFromFirstValid ==
    /\ frSeen # <<>> =>
         /\ acc.senderErrorRaw = frSeen[1][4]
         /\ acc.reflectorErrorRaw = frSeen[1][5]
         /\ acc.reflectorSynced = EEBitS(frSeen[1][5])
    /\ (tpc = "responded" /\ tresp.code = 200) =>
         /\ syncStatus.sender_synced = senderSynced
         /\ syncStatus.both_synced =
                (syncStatus.sender_synced /\ syncStatus.reflector_synced)
         /\ frSeen # <<>> =>
              /\ DecodedAs(syncStatus.sender_error_estimate, frSeen[1][4])
              /\ DecodedAs(syncStatus.reflector_error_estimate, frSeen[1][5])
              /\ syncStatus.reflector_synced = EEBitS(frSeen[1][5])

\* the first record was lost, the first valid probe carries a synchronized
\* reflector field and the next one different fields, and the sender is
\* synchronized too
C31_Witness ==
    /\ tpc = "responded" /\ tresp.code = 200
    /\ Len(frSeen) = 2
    /\ frSeen[1][1] = 1
    /\ frSeen[1][5] = 35392
    /\ frSeen[2][4] # frSeen[1][4] /\ frSeen[2][5] # frSeen[1][5]
    /\ syncStatus.both_synced
    /\ syncStatus.reflector_error_estimate.scale = 10
    /\ syncStatus.reflector_error_estimate.multiplier = 64

---------------------------------------------------------------------------
(* Claims about the data connections *)

\* session states in which CreateStreams has succeeded and Close has not run
StreamsUp == {"TestStart", "TestRunning", "Running", "TestEnd", "ExchangeResults"}

\* the network the protocol of the request selects
RequestedNetwork == IF req.Protocol \in {"udp", "UDP", "Udp"} THEN "udp" ELSE "tcp"

\* C32: when CreateStreams succeeds, exactly parallelStreams data connections are
\* open, in creation order, each on the network the protocol selects, and the
\* first bytes written on each are the 37-byte cookie that was sent on the
\* control connection; the cookie never changes during a session, and exactly
\* one worker is started per stream.
C32_StreamsCarryCookie ==
    /\ pc \in StreamsUp =>
         /\ Len(streams) = client.Parallel
         /\ \A i \in DOMAIN streams : streams[i] = "open"
         /\ Len(conns) = 1 + client.Parallel /\ Len(wire) = Len(conns)
         /\ conns[1] = Conn("control", "open", TRUE)
         /\ wire[1].net = "tcp"
         /\ Len(wire[1].first) = 37
         /\ \A i \in 2..Len(conns) :
              /\ conns[i] = Conn("stream", "open", TRUE)
              /\ wire[i].net = RequestedNetwork
              /\ wire[i].first = wire[1].first
    /\ \A i \in DOMAIN wire : wire[i].first # <<>> => wire[i].first = cookie
    /\ spawned <= Len(streams)
    /\ \A i \in Workers : wpc[i] # "none" <=> i <= spawned
    /\ pc \in {"TestEnd", "ExchangeResults", "Done"} => spawned = client.Parallel

\* a UDP test with two streams, past the data phase
C32_Witness ==
    /\ pc = "TestEnd"
    /\ client.Protocol = "UDP"
    /\ client.Parallel = 2
    /\ Len(wire) = 3
    /\ wire[1].net = "tcp" /\ wire[3].net = "udp"
    /\ wire[3].first = cookie /\ cookie[37] = 0 /\ cookie[1] = 100
    /\ spawned = 2

---------------------------------------------------------------------------
(* Claims about the state bytes *)

\* the two's-complement value of a byte
Signed8(w) == IF w < 128 THEN w ELSE w - 256

ParamsSent == \E k \in 1..Len(ctrlOut) : ctrlOut[k] = JsonMsg("params")

\* C33: every state byte read from the control channel is interpreted as a
\* signed 8-bit integer: in ParamExchange the wire byte 0xFF fails the session
\* with "server denied access", 0xFE with "server error", every other byte
\* except 9 with an unexpected-state error, and byte 9 alone lets the client
\* send its parameters.
C33_StateBytesSigned ==
    /\ \A k \in 1..Len(reads) :
         /\ reads[k].observed = Signed8(reads[k].byte)
         /\ reads[k].observed \in -128..127
    /\ ParamsSent => reads[1].ok /\ reads[1].byte = 9
    /\ (Len(reads) = 1 /\ reads[1].ok) =>
         LET w == reads[1].byte IN
         /\ w = 255 => pc = "Failed" /\ err = PlainErr("server denied access")
         /\ w = 254 => pc = "Failed" /\ err = PlainErr("server error")
         /\ w \notin {255, 254, 9} =>
              /\ pc = "Failed"
              /\ err = [kind |-> "unexpected state", observed |-> Signed8(w),
                        expected |-> 9]
         /\ w = 9 => ParamsSent \/ (pc = "Failed" /\ err = PlainErr("send params"))
         /\ pc = "Failed" => resp.code = 500 /\ ~ParamsSent

\* the server answered the cookie with 0xFF
C33_Witness ==
    /\ pc = "Failed"
    /\ Len(reads) = 1
    /\ reads[1].ok /\ reads[1].byte = 255 /\ reads[1].observed = -1
    /\ err.kind = "server denied access"
    /\ resp.error = "server denied access"

---------------------------------------------------------------------------
(* Claims about the transport flags *)

\* C34: for every protocol string a request can carry, the parameter JSON sent
\* to the server has exactly one of tcp and udp true, and the data streams are
\* opened over UDP iff udp is true and over TCP iff tcp is true.
C34_ExactlyOneTransport ==
    pc \in StreamsUp =>
        /\ sentParams.tcp # sentParams.udp
        /\ \A i \in 2..Len(wire) :
             /\ wire[i].net = "udp" <=> sentParams.udp
             /\ wire[i].net = "tcp" <=> sentParams.tcp

---------------------------------------------------------------------------
(* Claims about the distribution of the cookie characters *)

\* the byte values that yield the character c
BytesFor(c) == {b \in 0..255 : CookieChar(b) = c}

\* C36: the mapping generateCookie applies to a random byte b (alphabet[b mod
\* 32]) sends exactly 8 of the 256 byte values to each of the 32 alphabet
\* characters, so a uniform byte gives a uniform character, and each of the 36
\* characters is derived from its own byte, the i-th from the i-th drawn.
C36_CookieCharsUniform ==
    (call.fn = "generateCookie" /\ upc = "returned") =>
        /\ Cardinality(Base32Alphabet) = 32
        /\ \A c \in Base32Alphabet : Cardinality(BytesFor(c)) = 8
        /\ \A i \in 1..36 :
             /\ RandByte(call.rnd, i) \in BytesFor(ret.cookie[i])
             /\ ret.cookie[i] = 97 + (RandByte(call.rnd, i) % 32)
                    \/ ret.cookie[i] = 24 + (RandByte(call.rnd, i) % 32)

\* the source alternates 0 and 255: the characters alternate 'a' and '7'
C36_Witness ==
    /\ call.fn = "generateCookie"
    /\ upc = "returned"
    /\ call.rnd = <<0, 255>>
    /\ ret.cookie[1] = 97 /\ ret.cookie[2] = 55 /\ ret.cookie[35] = 97
    /\ ret.cookie[36] = 55

\* the goroutines that wrote instance inst of variable var
WritersOf(var, inst) ==
    {m.by : m \in {x \in memWrites : x.var = var /\ x.inst = inst /\ x.by \in Workers}}

\* C37: during the data phase the only memory written by more than one worker
\* is the shared byte total, every write to it is made holding the mutex, no two
\* receive workers write into the same read buffer, and the send payload is
\* not written once a worker was started.
C37_OnlyTotalSharedUnderMutex ==
    /\ \A m \in memWrites :
         Cardinality(WritersOf(m.var, m.inst)) > 1 => m.var = "totalBytes"
    /\ \A m \in memWrites : m.var = "totalBytes" => m.locked
    /\ \A m \in memWrites : (m.var = "buffer" /\ ~client.Reverse) => (m.by = 0 /\ ~m.started)

\* the phases in which the client is blocked in readState
WaitingForState ==
    pc \in {"ParamExchange", "CreateStreams", "TestStart", "TestRunning", "TestEnd",
            "ExchangeResults"}

\* the server stops sending while the client waits for its next state byte, and
\* closes nothing
ServerFallsSilent ==
    /\ WaitingForState
    /\ ~silent
    /\ silent' = TRUE
    /\ UNCHANGED <<req, hpc, resp, client, pc, err, result, reads, ctrlOut, trace,
                   sentParams, streams, dials, spawned, res, conns, cookie, wire>>
    /\ UNCHANGED dataVars
    /\ UNCHANGED <<pvars, tvars, uvars>>

NextSilent ==
    \/ Next
    \/ ServerFallsSilent

\* the handler's own steps are taken; a read of the control connection returns
\* once the server has sent or closed (it is not enabled while the server is
\* silent); the dials return within their timeouts
ControlFairness ==
    /\ WF_vars(iperfClientRun)
    /\ WF_vars(Connect)
    /\ WF_vars(ExchangeParams)
    /\ WF_vars(CreateStreams)
    /\ WF_vars(RunTestStart)
    /\ WF_vars(RunTestRunning)
    /\ WF_vars(RunTestEnd)
    /\ WF_vars(RunTestExchange)
    /\ WF_vars(RunTestDisplay)

\* one request under fair scheduling, against a server that may fall silent
SpecSilent == InitFair /\ [][NextSilent]_vars /\ Fairness /\ ControlFairness

\* a server that never falls silent lets every session end
TalkingServerEnds == <>(silent \/ hpc = "responded")

\* C38: every session eventually reaches Done or Failed and the handler
\* responds, whatever the server does, a server that accepts the connection and
\* then sends nothing more and closes nothing included.
C38_SessionEnds == (pc # "Idle") ~> (pc \in {"Done", "Failed"} /\ hpc = "responded")

---------------------------------------------------------------------------
(* Claims about the Error Estimates the sender builds *)

\* a call of calculateErrorEstimate of either build that has returned
AnyEncoderReturned == call.fn = "calculateErrorEstimate" /\ upc = "returned"

\* C39: every Error Estimate the sender-side encoder produces (the Linux build
\* for any outcome of adjtimex, and the build without adjtimex) is a 16-bit
\* value with Z = 0, Scale in 0..63 and Multiplier in 1..255; parseErrorEstimate
\* of it is not unavailable and does not return the -1 sentinel, and its Synced
\* flag is the synchronization status the clock probe returned for that query.
C39_EncoderOutputsDecodable ==
    AnyEncoderReturned =>
        LET d == parseErrorEstimate(ret.ee) IN
        /\ ret.ee \in 0..65535
        /\ ~EEBitZ(ret.ee)
        /\ EEScale(ret.ee) \in 0..63
        /\ EEMultiplier(ret.ee) \in 1..255
        /\ ret.ee = ErrorEstimateField(ret.synced, FALSE, d.Scale, d.Multiplier)
        /\ ~d.Unavailable
        /\ d.ErrorSeconds # Unavailable
        /\ d.ErrorSeconds = [mant |-> EEMultiplier(ret.ee), exp |-> -EEScale(ret.ee)]
        /\ d.Synced = ret.synced
        /\ call.build = "linux" => d.Synced = ret.status.Synced

\* the smallest error of a synchronized clock, 1 us: 10^-6 * 2^20 = 1.05 gives
\* the largest Scale used, 20, with Multiplier 1
C39_Witness ==
    /\ AnyEncoderReturned
    /\ call.build = "linux" /\ call.errno = 0 /\ call.esterror = 1
    /\ ret.status.Synced
    /\ ret.ee = ErrorEstimateField(TRUE, FALSE, 20, 1)
    /\ parseErrorEstimate(ret.ee).ErrorSeconds = [mant |-> 1, exp |-> -20]

====
